---- MODULE Spec2Model ----
(***************************************************************************)
(* Terminal Session Engine of agent-maestro (maestro-ui/src-tauri):        *)
(* the registry of live PTY sessions (pty.rs), the reader thread of each   *)
(* session, and the input recording attached to a session.                 *)
(*                                                                         *)
(* The model is of the target_family = "unix" build.  Strings are          *)
(* sequences of Unicode scalar values, byte strings are sequences of       *)
(* 0..255.  An Option is a sequence of length at most one: None is <<>>,   *)
(* Some(x) is <<x>>.  A handler that runs under the registry mutex is one  *)
(* action; the reader thread of a session is a small process with a        *)
(* program counter.  Mutex poisoning is not modelled: no handler of        *)
(* pty.rs panics inside a critical section on the modelled inputs.         *)
(* Failures of the environment (the PTY, the file system, the credential   *)
(* store, wait) are parameters of the actions, chosen by the               *)
(* specifications.                                                         *)
(*                                                                         *)
(* The specifications share the variables and the actions and differ in    *)
(* the commands and inputs they dispatch:                                  *)
(*   Spec        the engine without recordings: create_session with its    *)
(*               failures, close, write, resize, detach, reaping           *)
(*   SpecNames   sessions created under colliding names, and reaped        *)
(*   SpecReader  the reader thread of a session whose child prints         *)
(*   SpecRec     a session with cleartext recordings and their failures    *)
(*   SpecKeyed   the same with encrypted recordings and the key store      *)
(*   SpecShared  sessions that record under one recording id               *)
(*   SpecInput   what a user types into a recorded session, key by key     *)
(*   SpecSources a recorded session written to by the user and by others   *)
(*   SpecLoad    a cleartext recording, line by line, and its loading      *)
(*   SpecFlush   a recorded session that takes 20 KiB in one write         *)
(*   SpecBroken  sessions that share a log, and the loading of that log    *)
(*   SpecKeys    recordings with encryption and the key manager's commands *)
(*   SpecCipher  encrypt_string_with_key and decrypt_string_with_key       *)
(*   SpecChunks  a byte stream read by the reader thread in every chunking *)
(*   SpecKill    kill_persistent_session in every environment              *)
(*   SpecReaping SpecReader with close_session, under fair scheduling      *)
(*   SpecEscapes escape sequences typed whole and cut in two               *)
(*   SpecAttach  persistent sessions created in every environment          *)
(*   SpecEvents  a recording that is stopped, detached or reaped           *)
(***************************************************************************)
EXTENDS Integers, Sequences, FiniteSets, TLC

(* ------------------------------------------------------------------ *)
(* Bounds of the model                                                 *)
(* ------------------------------------------------------------------ *)

\* ids the counter hands out (0 .. MaxSessions-1) in Spec
MaxSessions == 2
\* ids the counter hands out in SpecNames
MaxNamed == 3
\* ids the counter hands out in SpecReader, SpecReaping and SpecAttach
MaxReaders == 1
\* ids the counter hands out in SpecRec
MaxRecording == 1
\* ids the counter hands out in SpecShared
MaxSharing == 2
\* ids the counter hands out in SpecKeyed
MaxKeyed == 1
\* successful reads of one reader thread
MaxReads == 2
\* the offset in its log file up to which a recording takes user writes
MaxFileLen == 7
\* the bytes the reader thread reads in SpecChunks
MaxStream == 4
\* the periods of FlushMillis that pass in SpecFlush, SpecLoad and
\* SpecEvents
MaxTicks == 1
\* the length of an unfinished line up to which a recording takes user
\* writes in SpecInput, SpecEscapes and SpecEvents
MaxTyped == 2

(* ------------------------------------------------------------------ *)
(* Characters                                                          *)
(* ------------------------------------------------------------------ *)

ChBS == 8
ChTAB == 9
ChLF == 10
ChCR == 13
ChCtrlO == 15
ChNAK == 21
ChESC == 27
ChDash == 45
ChZero == 48
ChLowerD == 100
ChDEL == 127
ChReplacement == 65533

None == <<>>
Some(x) == <<x>>
IsSome(o) == Len(o) = 1
Unwrap(o) == o[1]

\* char::is_whitespace (the White_Space property)
IsWhitespace(c) ==
    \/ c \in 9..13
    \/ c \in {32, 133, 160, 5760, 8232, 8233, 8239, 8287, 12288}
    \/ c \in 8192..8202

RECURSIVE TrimStart(_)
TrimStart(s) ==
    IF s # <<>> /\ IsWhitespace(Head(s)) THEN TrimStart(Tail(s)) ELSE s

RECURSIVE TrimEnd(_)
TrimEnd(s) ==
    IF s # <<>> /\ IsWhitespace(s[Len(s)])
    THEN TrimEnd(SubSeq(s, 1, Len(s) - 1))
    ELSE s

\* str::trim
Trim(s) == TrimEnd(TrimStart(s))

\* u64 / i32 to_string: the decimal digits of n
RECURSIVE ToDecimal(_)
ToDecimal(n) ==
    IF n < 10 THEN <<ChZero + n>>
    ELSE Append(ToDecimal(n \div 10), ChZero + (n % 10))

\* the literals "shell", "agent" and "session" of create_session
StrShell == <<115, 104, 101, 108, 108>>
StrAgent == <<97, 103, 101, 110, 116>>
StrSession == <<115, 101, 115, 115, 105, 111, 110>>

(* ------------------------------------------------------------------ *)
(* UTF-8 (std::str::from_utf8 as decode_utf8_stream uses it)           *)
(* ------------------------------------------------------------------ *)

IsContinuation(b) == b \in 128..191

\* width of the sequence a lead byte announces, 0 for a byte that leads none
Utf8CharWidth(b) ==
    IF b < 128 THEN 1
    ELSE IF b \in 194..223 THEN 2
    ELSE IF b \in 224..239 THEN 3
    ELSE IF b \in 240..244 THEN 4
    ELSE 0

\* the second byte a three or four byte lead allows
SecondByteOk(first, second) ==
    \/ first = 224 /\ second \in 160..191
    \/ first \in 225..236 /\ second \in 128..191
    \/ first = 237 /\ second \in 128..159
    \/ first \in 238..239 /\ second \in 128..191
    \/ first = 240 /\ second \in 144..191
    \/ first \in 241..243 /\ second \in 128..191
    \/ first = 244 /\ second \in 128..143

Utf8Ok(n, c) == [kind |-> "ok", len |-> n, cp |-> c]
Utf8Bad(n) == [kind |-> "bad", len |-> n, cp |-> 0]
Utf8Short == [kind |-> "short", len |-> 0, cp |-> 0]

\* the sequence that starts at v[i]: a scalar value, an invalid sequence of
\* error_len bytes, or an unexpected end of input
Utf8At(v, i) ==
    LET first == v[i]
        w == Utf8CharWidth(first)
        has(k) == i + k <= Len(v)
    IN  IF w = 1 THEN Utf8Ok(1, first)
        ELSE IF w = 2 THEN
            IF ~has(1) THEN Utf8Short
            ELSE IF ~IsContinuation(v[i + 1]) THEN Utf8Bad(1)
            ELSE Utf8Ok(2, (first - 192) * 64 + (v[i + 1] - 128))
        ELSE IF w = 3 THEN
            IF ~has(1) THEN Utf8Short
            ELSE IF ~SecondByteOk(first, v[i + 1]) THEN Utf8Bad(1)
            ELSE IF ~has(2) THEN Utf8Short
            ELSE IF ~IsContinuation(v[i + 2]) THEN Utf8Bad(2)
            ELSE Utf8Ok(3, (first - 224) * 4096 + (v[i + 1] - 128) * 64
                           + (v[i + 2] - 128))
        ELSE IF w = 4 THEN
            IF ~has(1) THEN Utf8Short
            ELSE IF ~SecondByteOk(first, v[i + 1]) THEN Utf8Bad(1)
            ELSE IF ~has(2) THEN Utf8Short
            ELSE IF ~IsContinuation(v[i + 2]) THEN Utf8Bad(2)
            ELSE IF ~has(3) THEN Utf8Short
            ELSE IF ~IsContinuation(v[i + 3]) THEN Utf8Bad(3)
            ELSE Utf8Ok(4, (first - 240) * 262144 + (v[i + 1] - 128) * 4096
                           + (v[i + 2] - 128) * 64 + (v[i + 3] - 128))
        ELSE Utf8Bad(1)

\* std::str::from_utf8(v): the decoded valid prefix, its length in bytes
\* (valid_up_to) and, on an error, error_len (None: unexpected end)
RECURSIVE FromUtf8Scan(_, _, _)
FromUtf8Scan(v, i, chars) ==
    IF i > Len(v)
    THEN [ok |-> TRUE, chars |-> chars, valid_up_to |-> Len(v),
          error_len |-> None]
    ELSE LET r == Utf8At(v, i)
         IN  IF r.kind = "ok"
             THEN FromUtf8Scan(v, i + r.len, Append(chars, r.cp))
             ELSE [ok |-> FALSE, chars |-> chars, valid_up_to |-> i - 1,
                   error_len |-> IF r.kind = "short" THEN None
                                 ELSE Some(r.len)]

FromUtf8(v) == FromUtf8Scan(v, 1, <<>>)

Min(a, b) == IF a < b THEN a ELSE b

\* the concatenation of a sequence of sequences
RECURSIVE Concat(_)
Concat(seqs) == IF seqs = <<>> THEN <<>> ELSE Head(seqs) \o Concat(Tail(seqs))

\* the loop of decode_utf8_stream over carry (already extended by the chunk),
\* idx counted from 0 as in the source
RECURSIVE DecodeLoop(_, _, _)
DecodeLoop(carry, idx, out) ==
    IF idx >= Len(carry) THEN [out |-> out, idx |-> idx]
    ELSE LET r == FromUtf8(SubSeq(carry, idx + 1, Len(carry)))
         IN  IF r.ok THEN [out |-> out \o r.chars, idx |-> Len(carry)]
             ELSE LET idx1 == idx + r.valid_up_to
                      out1 == out \o r.chars
                  IN  IF r.error_len = None
                      THEN [out |-> out1, idx |-> idx1]
                      ELSE DecodeLoop(carry,
                                      Min(idx1 + Unwrap(r.error_len), Len(carry)),
                                      Append(out1, ChReplacement))

\* a decode_utf8_stream that decodes every chunk on its own
decode_utf8_stream_NoCarry(carry, chunk) ==
    [out |-> DecodeLoop(chunk, 0, <<>>).out, carry |-> <<>>]

\* decode_utf8_stream(&mut carry, chunk): the returned String and the carry
\* the call leaves behind
decode_utf8_stream(carry, chunk) ==
    IF chunk = <<>> THEN [out |-> <<>>, carry |-> carry]
    ELSE LET c == carry \o chunk
             r == DecodeLoop(c, 0, <<>>)
         IN  [out |-> r.out, carry |-> SubSeq(c, r.idx + 1, Len(c))]

\* String::from_utf8_lossy: every invalid or truncated sequence becomes U+FFFD
RECURSIVE FromUtf8Lossy(_)
FromUtf8Lossy(v) ==
    IF v = <<>> THEN <<>>
    ELSE LET r == FromUtf8(v)
         IN  IF r.ok THEN r.chars
             ELSE LET skip == IF r.error_len = None THEN Len(v)
                              ELSE r.valid_up_to + Unwrap(r.error_len)
                  IN  r.chars \o <<ChReplacement>>
                      \o FromUtf8Lossy(SubSeq(v, skip + 1, Len(v)))

(* ------------------------------------------------------------------ *)
(* Session names                                                       *)
(* ------------------------------------------------------------------ *)

\* a loop that returns its first candidate without looking it up in taken
FirstFreeSuffix_NoScan(taken, base, n) == base \o <<ChDash>> \o ToDecimal(n)

\* the first n >= from for which base-n is not taken (the loop of unique_name)
RECURSIVE FirstFreeSuffix(_, _, _)
FirstFreeSuffix(taken, base, n) ==
    LET candidate == base \o <<ChDash>> \o ToDecimal(n)
    IN  IF candidate \notin taken THEN candidate
        ELSE FirstFreeSuffix(taken, base, n + 1)

\* unique_name(existing, base), existing given by the names it holds
unique_name(taken, base) ==
    IF base \notin taken THEN base ELSE FirstFreeSuffix(taken, base, 2)

(* ------------------------------------------------------------------ *)
(* Recording log files                                                 *)
(* ------------------------------------------------------------------ *)

\* A file is a sequence of cells.  serde_json::to_string(line) is the cells
\* Cell(line, 1) .. Cell(line, JsonLen(line)), so a line is intact in a file
\* exactly when all its cells stand there in order; the byte b"\n" is the
\* cell NewlineCell and a byte of a hole left by a write beyond the end of
\* the file is HoleCell.
NoPayload == [enc |-> FALSE, key |-> None, ctx |-> "", text |-> <<>>]

Cell(line, k) == [line |-> line, k |-> k]

NewlineCell ==
    Cell([type |-> "nl", t |-> 0, data |-> NoPayload, encrypted |-> FALSE,
          created_at |-> 0], 0)

HoleCell ==
    Cell([type |-> "hole", t |-> 0, data |-> NoPayload, encrypted |-> FALSE,
          created_at |-> 0], 0)

\* RecordingLineV1::Meta(RecordingMetaV1 { created_at, encrypted, .. })
MetaLine(created_at, encrypted) ==
    [type |-> "meta", t |-> 0, data |-> NoPayload, encrypted |-> encrypted,
     created_at |-> created_at]

\* RecordingLineV1::Input(RecordingEventV1 { t, data })
InputLine(t, data) ==
    [type |-> "input", t |-> t, data |-> data, encrypted |-> FALSE,
     created_at |-> 0]

\* json.len(): the fixed part of the object counts as one cell, the decimal
\* digits of t and the characters of the payload one cell each
JsonLen(line) ==
    IF line.type = "meta" THEN 1
    ELSE 1 + Len(ToDecimal(line.t)) + Len(line.data.text)

\* the bytes write_all(json.as_bytes()) and write_all(b"\n") hand to the writer
LineCells(line) ==
    [k \in 1..JsonLen(line) |-> Cell(line, k)] \o <<NewlineCell>>

\* write(2) of cells at offset pos of a file opened without O_APPEND
FileWriteAt(content, pos, cells) ==
    LET padded == IF pos > Len(content)
                  THEN content \o [k \in 1..(pos - Len(content)) |-> HoleCell]
                  ELSE content
        after == pos + Len(cells)
    IN  SubSeq(padded, 1, pos) \o cells
        \o (IF after < Len(padded)
            THEN SubSeq(padded, after + 1, Len(padded)) ELSE <<>>)

\* the lines of a file: what stands before each NewlineCell, and the rest
RECURSIVE SplitLines(_, _, _)
SplitLines(content, cur, acc) ==
    IF content = <<>> THEN (IF cur = <<>> THEN acc ELSE Append(acc, cur))
    ELSE IF Head(content) = NewlineCell
         THEN SplitLines(Tail(content), <<>>, Append(acc, cur))
         ELSE SplitLines(Tail(content), Append(cur, Head(content)), acc)

FileLines(content) == SplitLines(content, <<>>, <<>>)

\* whether the cells between two newlines are one whole serialized line
IsWholeLine(cells) ==
    /\ cells # <<>>
    /\ cells[1].line.type \in {"meta", "input"}
    /\ Len(cells) = JsonLen(cells[1].line)
    /\ \A k \in 1..Len(cells) : cells[k] = Cell(cells[1].line, k)

(* ------------------------------------------------------------------ *)
(* Recording of user input (record_user_input and its helpers)         *)
(* ------------------------------------------------------------------ *)

\* char::is_control (general category Cc)
IsControl(c) == c \in 0..31 \/ c \in 127..159

ChBEL == 7
ChBackslash == 92

\* skip_csi: i is the index of the next character the iterator yields
RECURSIVE skip_csi(_, _)
skip_csi(data, i) ==
    IF i > Len(data) THEN i
    ELSE IF data[i] \in 64..126 THEN i + 1
    ELSE skip_csi(data, i + 1)

RECURSIVE skip_until_st(_, _)
skip_until_st(data, i) ==
    IF i > Len(data) THEN i
    ELSE IF data[i] = ChESC /\ i + 1 <= Len(data) /\ data[i + 1] = ChBackslash
         THEN i + 2
    ELSE skip_until_st(data, i + 1)

RECURSIVE skip_osc(_, _)
skip_osc(data, i) ==
    IF i > Len(data) THEN i
    ELSE IF data[i] = ChBEL THEN i + 1
    ELSE IF data[i] = ChESC /\ i + 1 <= Len(data) /\ data[i + 1] = ChBackslash
         THEN i + 2
    ELSE skip_osc(data, i + 1)

\* a skip_escape_sequence that takes every escape for a single character
skip_escape_sequence_OneChar(data, i) ==
    IF i > Len(data) THEN i ELSE i + 1

\* skip_escape_sequence, called with the iterator just past the ESC
skip_escape_sequence(data, i) ==
    IF i > Len(data) THEN i
    ELSE IF data[i] = 91 THEN skip_csi(data, i + 1)
    ELSE IF data[i] = 93 THEN skip_osc(data, i + 1)
    ELSE IF data[i] \in {80, 94, 95} THEN skip_until_st(data, i + 1)
    ELSE i + 1

\* a payload that is written as it was typed whatever the recording's key
Payload_Cleartext(rec, text) ==
    [enc |-> FALSE, key |-> None, ctx |-> "", text |-> text]

\* the payload of an event: cleartext, or the ciphertext string of
\* encrypt_string_with_key(key, SecretContext::Recording, data)
Payload(rec, text) ==
    [enc |-> IsSome(rec.enc_key), key |-> rec.enc_key,
     ctx |-> IF IsSome(rec.enc_key) THEN "Recording" ELSE "", text |-> text]

\* The state of one call of record_user_input: the recording, the local
\* wrote_any, the calls of write_recording_event so far, and whether one of
\* them returned Err.
ScanStart(rec) ==
    [rec |-> rec, wrote_any |-> FALSE, events |-> 0, err |-> FALSE]

\* a write_recording_event that leaves out the write of the newline
write_recording_event_NoNewline(st, t, data, failAt) ==
    IF st.events + 1 = failAt
    THEN [st EXCEPT !.err = TRUE]
    ELSE LET line == InputLine(t, Payload(st.rec, data))
         IN  [st EXCEPT !.rec.buf = @ \o [k \in 1..JsonLen(line) |->
                                              Cell(line, k)],
                        !.rec.unflushed_bytes = @ + JsonLen(line),
                        !.events = @ + 1,
                        !.wrote_any = TRUE]

\* write_recording_event(rec, t, data): fails (encryption, serialization or
\* write error) when it is call number failAt of the enclosing
\* record_user_input; otherwise the line goes to the BufWriter and
\* unflushed_bytes grows by json.len() + 1
write_recording_event(st, t, data, failAt) ==
    IF st.events + 1 = failAt
    THEN [st EXCEPT !.err = TRUE]
    ELSE LET line == InputLine(t, Payload(st.rec, data))
         IN  [st EXCEPT !.rec.buf = @ \o LineCells(line),
                        !.rec.unflushed_bytes = @ + JsonLen(line) + 1,
                        !.events = @ + 1,
                        !.wrote_any = TRUE]

\* a take that copies the buffer and leaves it as it is
TakeBuffer_Keeps(st) == st

\* std::mem::take(&mut rec.input_buffer)
TakeBuffer(st) == [st EXCEPT !.rec.input_buffer = <<>>]

\* a character of the last match arm: one that record_user_input buffers
IsBuffered(ch) ==
    /\ ch \notin {ChCR, ChLF, ChDEL, ChBS, ChNAK, ChTAB, ChESC}
    /\ ~IsControl(ch)

\* the index after the run of buffered characters that starts at data[i]
BufferedRunEnd(data, i) ==
    LET stops == {k \in i..Len(data) : ~IsBuffered(data[k])}
    IN  IF stops = {} THEN Len(data) + 1
        ELSE CHOOSE k \in stops : \A m \in stops : k <= m

\* the while loop of record_user_input from character i of data on (a run
\* of buffered characters is pushed in one step)
RECURSIVE RecordScan(_, _, _, _, _)
RecordScan(st, data, i, t, failAt) ==
    IF st.err \/ i > Len(data) THEN st
    ELSE LET ch == data[i]
             buffer == st.rec.input_buffer
         IN  IF ch = ChCR
             THEN LET j == IF i + 1 <= Len(data) /\ data[i + 1] = ChLF
                           THEN i + 2 ELSE i + 1
                  IN  RecordScan(write_recording_event(TakeBuffer(st), t,
                                     Append(buffer, ChCR), failAt),
                                 data, j, t, failAt)
             ELSE IF ch = ChLF
             THEN RecordScan(write_recording_event(TakeBuffer(st), t,
                                 Append(buffer, ChLF), failAt),
                             data, i + 1, t, failAt)
             ELSE IF ch \in {ChDEL, ChBS}
             THEN RecordScan(
                      [st EXCEPT !.rec.input_buffer =
                          IF @ = <<>> THEN @ ELSE SubSeq(@, 1, Len(@) - 1)],
                      data, i + 1, t, failAt)
             ELSE IF ch = ChNAK
             THEN RecordScan(TakeBuffer(st), data, i + 1, t, failAt)
             ELSE IF ch = ChTAB
             THEN RecordScan(st, data, i + 1, t, failAt)
             ELSE IF ch = ChESC
             THEN RecordScan(st, data, skip_escape_sequence(data, i + 1),
                             t, failAt)
             ELSE IF IsControl(ch)
             THEN RecordScan(st, data, i + 1, t, failAt)
             ELSE LET j == BufferedRunEnd(data, i)
                  IN  RecordScan([st EXCEPT !.rec.input_buffer =
                                      @ \o SubSeq(data, i, j - 1)],
                                 data, j, t, failAt)

\* BufWriter::flush: the buffered cells go to the file at the writer's offset
FlushWriter(rec, fs) ==
    [rec |-> [rec EXCEPT !.buf = <<>>, !.pos = @ + Len(rec.buf)],
     fs |-> IF rec.buf = <<>> THEN fs
            ELSE [fs EXCEPT ![rec.id] = FileWriteAt(@, rec.pos, rec.buf)]]

\* a drop that writes the unfinished line as an event of its own
DropRecording_WritesBuffered(rec, fs, written) ==
    IF written
    THEN FlushWriter([rec EXCEPT !.buf = @ \o LineCells(InputLine(0,
                          Payload(rec, rec.input_buffer)))], fs).fs
    ELSE fs

\* dropping a SessionRecording drops its BufWriter, which tries a last flush
\* and ignores its failure (written: whether that flush succeeds)
DropRecording(rec, fs, written) ==
    IF written THEN FlushWriter(rec, fs).fs ELSE fs

FlushBytes == 16384
FlushMillis == 1500

\* record_user_input(rec, data) at time now.  failAt and flushFails are the
\* I/O outcomes of the call: failAt = k > 0 makes the k-th
\* write_recording_event return Err, flushFails makes writer.flush() fail.
record_user_input(rec, data, fs, now, failAt, flushFails) ==
    LET t == now - rec.started_at
        st == RecordScan(ScanStart(rec), data, 1, t, failAt)
        should_flush == \/ st.wrote_any
                        \/ st.rec.unflushed_bytes >= FlushBytes
                        \/ now - st.rec.last_flush >= FlushMillis
    IN  IF st.err THEN [ok |-> FALSE, rec |-> st.rec, fs |-> fs]
        ELSE IF ~should_flush THEN [ok |-> TRUE, rec |-> st.rec, fs |-> fs]
        ELSE IF flushFails THEN [ok |-> FALSE, rec |-> st.rec, fs |-> fs]
        ELSE LET f == FlushWriter(st.rec, fs)
             IN  [ok |-> TRUE,
                  rec |-> [f.rec EXCEPT !.last_flush = now,
                                        !.unflushed_bytes = 0],
                  fs |-> f.fs]

\* recording::sanitize_recording_id
SanitizeChar(ch) ==
    IF \/ ch \in 48..57
       \/ ch \in 65..90
       \/ ch \in 97..122
       \/ ch = ChDash
       \/ ch = 95
    THEN ch ELSE 95

StrRecording == <<114, 101, 99, 111, 114, 100, 105, 110, 103>>
MaxRecordingIdLen == 120

sanitize_recording_id(input) ==
    LET trimmed == Trim(input)
        taken == SubSeq(trimmed, 1, Min(Len(trimmed), MaxRecordingIdLen))
    IN  IF trimmed = <<>> THEN StrRecording
        ELSE [k \in 1..Len(taken) |-> SanitizeChar(taken[k])]

(* ------------------------------------------------------------------ *)
(* State                                                               *)
(* ------------------------------------------------------------------ *)

VARIABLES
    next_id,      \* AppStateInner.next_id
    sessions,     \* AppStateInner.sessions: id -> PtySession
    child,        \* per spawned session: the child process
    reader,       \* per spawned session: its reader thread
    emitted,      \* per spawned session: the events its reader emitted
    files,        \* recordings directory: safe id -> content of <id>.jsonl
    key_cache,    \* secure.rs CACHE (MasterKeyCacheState)
    keychain,     \* the entry of the platform credential store
    now,          \* the clock (Instant, and SystemTime in ms); it moves
                  \* by the action Tick
    ret           \* what the step just taken returned to its caller: the
                  \* command, its result, the bytes it handed to the
                  \* session's PTY writer, the window size it set on the
                  \* PTY master, what it printed to stderr, the recording
                  \* it loaded, how often it went to the credential
                  \* store, the string a function of secure.rs returned
                  \* and the commands it ran the bundled zellij with
                  \* (NoCommand after a step of another thread)

vars == <<next_id, sessions, child, reader, emitted, files, key_cache,
          keychain, now, ret>>

\* the id the counter hands out: next_id.fetch_add(1).to_string()
IdStr(n) == ToDecimal(n)

Registered == DOMAIN sessions
Spawned == DOMAIN child

\* a command that returned err ("" for Ok) and touched no PTY
Ret(op, id, err) ==
    [op |-> op, id |-> id, err |-> err, delivered |-> <<>>, resized |-> None,
     logged |-> "", loaded |-> None, keychain_calls |-> 0, value |-> None,
     invoked |-> <<>>]

\* a step of a child or of a reader thread: no command returns
NoCommand == Ret("none", <<>>, "")

\* a function extended or overridden at one key (HashMap::insert)
Insert(f, k, v) == [x \in DOMAIN f \cup {k} |-> IF x = k THEN v ELSE f[x]]
\* HashMap::remove
Remove(f, k) == [x \in DOMAIN f \ {k} |-> f[x]]

Init ==
    /\ next_id = 0
    /\ sessions = <<>>
    /\ child = <<>>
    /\ reader = <<>>
    /\ emitted = <<>>
    /\ files = <<>>
    /\ key_cache = [state |-> "Uninitialized", key |-> 0, err |-> ""]
    /\ keychain = None
    /\ now = 0
    /\ ret = NoCommand

(* ------------------------------------------------------------------ *)
(* Secure key manager (secure.rs), as far as recording uses it         *)
(* ------------------------------------------------------------------ *)

\* a get_or_create_master_key_uncached that draws a key whatever the store
\* holds
get_or_create_master_key_uncached_AlwaysDraws(store, env, fresh) ==
    IF env = "init_fail"
    THEN [ok |-> FALSE, key |-> 0, err |-> "keychain init failed", store |-> store]
    ELSE IF env = "read_fail"
    THEN [ok |-> FALSE, key |-> 0, err |-> "keychain read failed", store |-> store]
    ELSE IF env = "write_fail"
    THEN [ok |-> FALSE, key |-> 0, err |-> "keychain write failed", store |-> store]
    ELSE [ok |-> TRUE, key |-> fresh, err |-> "", store |-> Some(fresh)]

\* get_or_create_master_key_uncached: env is what the credential store does
\* ("ok", "init_fail", "read_fail", "write_fail"), fresh the key OsRng draws
get_or_create_master_key_uncached(store, env, fresh) ==
    IF env = "init_fail"
    THEN [ok |-> FALSE, key |-> 0, err |-> "keychain init failed", store |-> store]
    ELSE IF env = "read_fail"
    THEN [ok |-> FALSE, key |-> 0, err |-> "keychain read failed", store |-> store]
    ELSE IF IsSome(store)
    THEN [ok |-> TRUE, key |-> Unwrap(store), err |-> "", store |-> store]
    ELSE IF env = "write_fail"
    THEN [ok |-> FALSE, key |-> 0, err |-> "keychain write failed", store |-> store]
    ELSE [ok |-> TRUE, key |-> fresh, err |-> "", store |-> Some(fresh)]

\* a get_or_create_master_key that memoizes a key and forgets an error
get_or_create_master_key_ForgetsErrors(cache, store, env, fresh) ==
    IF cache.state = "Ready"
    THEN [ok |-> TRUE, key |-> cache.key, err |-> "", cache |-> cache,
          store |-> store, calls |-> 0]
    ELSE LET r == get_or_create_master_key_uncached(store, env, fresh)
         IN  [ok |-> r.ok, key |-> r.key, err |-> r.err, store |-> r.store,
              calls |-> 1,
              cache |-> IF r.ok
                        THEN [state |-> "Ready", key |-> r.key, err |-> ""]
                        ELSE cache]

\* get_or_create_master_key: the memoized result, or one uncached attempt
get_or_create_master_key(cache, store, env, fresh) ==
    IF cache.state = "Ready"
    THEN [ok |-> TRUE, key |-> cache.key, err |-> "", cache |-> cache,
          store |-> store, calls |-> 0]
    ELSE IF cache.state = "Error"
    THEN [ok |-> FALSE, key |-> 0, err |-> cache.err, cache |-> cache,
          store |-> store, calls |-> 0]
    ELSE LET r == get_or_create_master_key_uncached(store, env, fresh)
         IN  [ok |-> r.ok, key |-> r.key, err |-> r.err, store |-> r.store,
              calls |-> 1,
              cache |-> IF r.ok
                        THEN [state |-> "Ready", key |-> r.key, err |-> ""]
                        ELSE [state |-> "Error", key |-> 0, err |-> r.err]]

(* ------------------------------------------------------------------ *)
(* Ciphertext strings (secure.rs) and the reading of a recording log   *)
(* (recording.rs)                                                      *)
(* ------------------------------------------------------------------ *)

\* ENC_PREFIX = "enc:v1:"
EncPrefix == <<101, 110, 99, 58, 118, 49, 58>>
NonceLen == 12
TagLen == 16

\* str::starts_with
StartsWith(str, prefix) ==
    Len(str) >= Len(prefix) /\ SubSeq(str, 1, Len(prefix)) = prefix

\* the six bits a character of the standard base64 alphabet stands for,
\* -1 for any other character
Sextet(ch) ==
    IF ch \in 65..90 THEN ch - 65
    ELSE IF ch \in 97..122 THEN ch - 71
    ELSE IF ch \in 48..57 THEN ch + 4
    ELSE IF ch = 43 THEN 62
    ELSE IF ch = 47 THEN 63
    ELSE -1

\* BASE64.decode(encoded).len() of the STANDARD engine (canonical padding,
\* no trailing bits, no white space), -1 for Err
Base64DecodedLen(encoded) ==
    LET n == Len(encoded)
        pad == IF n >= 2 /\ encoded[n] = 61 /\ encoded[n - 1] = 61 THEN 2
               ELSE IF n >= 1 /\ encoded[n] = 61 THEN 1
               ELSE 0
        symbols == n - pad
    IN  IF n % 4 # 0 THEN -1
        ELSE IF \E k \in 1..symbols : Sextet(encoded[k]) = -1 THEN -1
        ELSE IF pad = 1 /\ Sextet(encoded[symbols]) % 4 # 0 THEN -1
        ELSE IF pad = 2 /\ Sextet(encoded[symbols]) % 16 # 0 THEN -1
        ELSE 3 * (n \div 4) - pad

\* the character of the standard alphabet that stands for the six bits v
Base64Symbol(v) ==
    IF v < 26 THEN 65 + v
    ELSE IF v < 52 THEN 71 + v
    ELSE IF v < 62 THEN v - 4
    ELSE IF v = 62 THEN 43
    ELSE 47

\* BASE64.encode(bytes) of the STANDARD engine, padded with '='
Base64Encode(bytes) ==
    LET n == Len(bytes)
        byte(k) == IF k <= n THEN bytes[k] ELSE 0
        sextet(g, j) ==
            LET b1 == byte(3 * g + 1)
                b2 == byte(3 * g + 2)
                b3 == byte(3 * g + 3)
            IN  IF j = 1 THEN b1 \div 4
                ELSE IF j = 2 THEN (b1 % 4) * 16 + (b2 \div 16)
                ELSE IF j = 3 THEN (b2 % 16) * 4 + (b3 \div 64)
                ELSE b3 % 64
    IN  [k \in 1..(4 * ((n + 2) \div 3)) |->
            LET g == (k - 1) \div 4
                j == ((k - 1) % 4) + 1
            IN  IF 3 * g + j > n + 1 THEN 61
                ELSE Base64Symbol(sextet(g, j))]

\* BASE64.decode(encoded) of the STANDARD engine, None for Err
Base64Decode(encoded) ==
    LET len == Base64DecodedLen(encoded)
        s(g, i) == Sextet(encoded[4 * g + i])
    IN  IF len = -1 THEN None
        ELSE Some([k \in 1..len |->
                 LET g == (k - 1) \div 3
                     j == ((k - 1) % 3) + 1
                 IN  IF j = 1 THEN s(g, 1) * 4 + (s(g, 2) \div 16)
                     ELSE IF j = 2
                     THEN (s(g, 2) % 16) * 16 + (s(g, 3) \div 4)
                     ELSE (s(g, 3) % 4) * 64 + s(g, 4)])

\* an aad that is the same for both contexts
Aad_Shared(context) ==
    <<97, 103, 101, 110, 116, 115, 45, 117, 105, 47, 118, 49>>

\* SecretContext::aad: b"agents-ui/state/v1", b"agents-ui/recording/v1"
Aad(context) ==
    IF context = "State"
    THEN <<97, 103, 101, 110, 116, 115, 45, 117, 105, 47, 115, 116, 97, 116,
           101, 47, 118, 49>>
    ELSE <<97, 103, 101, 110, 116, 115, 45, 117, 105, 47, 114, 101, 99, 111,
           114, 100, 105, 110, 103, 47, 118, 49>>

\* ChaCha20Poly1305 (a crate, no code of this repository) is taken as an
\* authenticated cipher: encryption adds a key stream of the key and the
\* nonce to the message and appends a tag of TagLen bytes over the key, the
\* nonce, the associated data and the body; decryption returns the message
\* exactly when the tag is the one encryption would have appended.
RECURSIVE ByteSum(_)
ByteSum(bytes) ==
    IF bytes = <<>> THEN 0 ELSE (Head(bytes) + ByteSum(Tail(bytes))) % 256

KeyStream(key, nonce, k) ==
    (key + nonce[((k - 1) % NonceLen) + 1] + k) % 256

AeadTag(key, nonce, aad, body) ==
    <<ByteSum(body), ByteSum(nonce), key % 256, ByteSum(aad),
      Len(body) % 256, Len(aad) % 256>> \o [k \in 1..(TagLen - 6) |-> 0]

\* cipher.encrypt(nonce, Payload { msg, aad })
AeadEncrypt(key, nonce, aad, msg) ==
    LET body == [k \in 1..Len(msg) |->
                    (msg[k] + KeyStream(key, nonce, k)) % 256]
    IN  body \o AeadTag(key, nonce, aad, body)

\* cipher.decrypt(nonce, Payload { msg, aad }), None for Err
AeadDecrypt(key, nonce, aad, ciphertext) ==
    IF Len(ciphertext) < TagLen THEN None
    ELSE LET n == Len(ciphertext) - TagLen
             body == SubSeq(ciphertext, 1, n)
         IN  IF SubSeq(ciphertext, n + 1, Len(ciphertext)) #
                    AeadTag(key, nonce, aad, body)
             THEN None
             ELSE Some([k \in 1..n |->
                      (body[k] + 256 - KeyStream(key, nonce, k)) % 256])

\* is_encrypted_value
is_encrypted_value(text) == StartsWith(TrimStart(text), EncPrefix)

\* an is_probably_encrypted_value that looks at the prefix only
is_probably_encrypted_value_PrefixOnly(data) ==
    data.enc \/ is_encrypted_value(data.text)

\* is_probably_encrypted_value of an event payload.  A payload that
\* encrypt_string_with_key made is the prefix and the base64 of a nonce, the
\* ciphertext and its tag; a cleartext payload is its text.
is_probably_encrypted_value(data) ==
    IF data.enc THEN TRUE
    ELSE LET trimmed == TrimStart(data.text)
         IN  /\ is_encrypted_value(data.text)
             /\ Base64DecodedLen(SubSeq(trimmed, Len(EncPrefix) + 1,
                                        Len(trimmed))) >= NonceLen + TagLen

\* decrypt_string_with_key(key, context, value): the plaintext, or an error
\* when the tag does not verify (another key, another context, or a blob
\* that no encryption made)
decrypt_string_with_key(key, context, data) ==
    IF data.enc
    THEN IF data.key = Some(key) /\ data.ctx = context
         THEN [ok |-> TRUE, text |-> data.text, err |-> ""]
         ELSE [ok |-> FALSE, text |-> <<>>, err |-> "decrypt failed"]
    ELSE LET trimmed == TrimStart(data.text)
             decoded == Base64Decode(SubSeq(trimmed, Len(EncPrefix) + 1,
                                            Len(trimmed)))
         IN  IF \/ ~StartsWith(trimmed, EncPrefix)
                \/ decoded = None
                \/ Len(Unwrap(decoded)) < NonceLen
             THEN [ok |-> TRUE, text |-> data.text, err |-> ""]
             ELSE LET blob == Unwrap(decoded)
                      plaintext ==
                          AeadDecrypt(key, SubSeq(blob, 1, NonceLen),
                                      Aad(context),
                                      SubSeq(blob, NonceLen + 1, Len(blob)))
                  IN  IF plaintext = None
                      THEN [ok |-> FALSE, text |-> <<>>,
                            err |-> "decrypt failed"]
                      ELSE IF ~FromUtf8(Unwrap(plaintext)).ok
                      THEN [ok |-> FALSE, text |-> <<>>,
                            err |-> "decrypt failed (utf8)"]
                      ELSE [ok |-> TRUE, err |-> "",
                            text |-> FromUtf8(Unwrap(plaintext)).chars]

\* serde_json::from_str::<RecordingLineV1>(trimmed): the line the cells
\* are the serialization of, None for Err
ParseLine(cells) == IF IsWholeLine(cells) THEN Some(cells[1].line) ELSE None

\* RecordingEventV1 { t, data } as load_recording returns it
LoadedEvent(t, text) == [t |-> t, data |-> text]

\* the state of the loop of load_recording: meta, events and key are its
\* locals, cache and store the key manager, calls its visits to the
\* credential store
LoadStart(cache, store) ==
    [err |-> "", meta |-> None, events |-> <<>>, key |-> None,
     cache |-> cache, store |-> store, calls |-> 0]

\* the Input arm of the loop for the event ev
LoadInput(st, ev, decrypt_allowed, env, fresh) ==
    IF ~is_probably_encrypted_value(ev.data)
    THEN [st EXCEPT !.events = Append(@, LoadedEvent(ev.t, ev.data.text))]
    ELSE IF ~decrypt_allowed
    THEN [st EXCEPT !.err = "Recording is encrypted"]
    ELSE LET k == get_or_create_master_key(st.cache, st.store, env, fresh)
             fetched == IF IsSome(st.key) THEN st
                        ELSE [st EXCEPT !.cache = k.cache, !.store = k.store,
                                        !.calls = @ + k.calls,
                                        !.key = IF k.ok THEN Some(k.key)
                                                ELSE None]
         IN  IF ~IsSome(st.key) /\ ~k.ok THEN [fetched EXCEPT !.err = k.err]
             ELSE LET d == decrypt_string_with_key(
                               Unwrap(fetched.key), "Recording", ev.data)
                  IN  IF d.ok
                      THEN [fetched EXCEPT !.events =
                                Append(@, LoadedEvent(ev.t, d.text))]
                      ELSE [fetched EXCEPT !.err = d.err]

\* the loop of load_recording from line i of the file on
RECURSIVE LoadLines(_, _, _, _, _, _)
LoadLines(st, lines, i, decrypt_allowed, env, fresh) ==
    IF st.err # "" \/ i > Len(lines) THEN st
    ELSE IF lines[i] = <<>>
    THEN LoadLines(st, lines, i + 1, decrypt_allowed, env, fresh)
    ELSE LET parsed == ParseLine(lines[i])
         IN  IF parsed = None THEN [st EXCEPT !.err = "parse failed"]
             ELSE IF Unwrap(parsed).type = "meta"
             THEN LoadLines(IF st.meta = None
                            THEN [st EXCEPT !.meta = parsed] ELSE st,
                            lines, i + 1, decrypt_allowed, env, fresh)
             ELSE LoadLines(LoadInput(st, Unwrap(parsed), decrypt_allowed,
                                      env, fresh),
                            lines, i + 1, decrypt_allowed, env, fresh)

\* load_recording(recording_id, decrypt) over the files fs
load_recording(fs, recording_id, decrypt, cache, store, env, fresh) ==
    LET safe_id == sanitize_recording_id(recording_id)
        decrypt_allowed == IF IsSome(decrypt) THEN Unwrap(decrypt) ELSE TRUE
    IN  IF safe_id \notin DOMAIN fs
        THEN [LoadStart(cache, store) EXCEPT !.err = "open failed"]
        ELSE LoadLines(LoadStart(cache, store), FileLines(fs[safe_id]), 1,
                       decrypt_allowed, env, fresh)

(* ------------------------------------------------------------------ *)
(* create_session                                                      *)
(* ------------------------------------------------------------------ *)

\* String::as_bytes of one scalar value
Utf8EncodeChar(c) ==
    IF c < 128 THEN <<c>>
    ELSE IF c < 2048 THEN <<192 + (c \div 64), 128 + (c % 64)>>
    ELSE IF c < 65536
    THEN <<224 + (c \div 4096), 128 + ((c \div 64) % 64), 128 + (c % 64)>>
    ELSE <<240 + (c \div 262144), 128 + ((c \div 4096) % 64),
           128 + ((c \div 64) % 64), 128 + (c % 64)>>

RECURSIVE Utf8EncodeChars(_)
Utf8EncodeChars(str) ==
    IF str = <<>> THEN <<>>
    ELSE Utf8EncodeChar(Head(str)) \o Utf8EncodeChars(Tail(str))

\* String::as_bytes (an ASCII string is its own encoding)
Utf8Encode(str) ==
    IF \A k \in 1..Len(str) : str[k] < 128 THEN str ELSE Utf8EncodeChars(str)

\* encrypt_string_with_key(key, context, plaintext); nonce is what OsRng
\* draws
encrypt_string_with_key(key, context, plaintext, nonce) ==
    EncPrefix \o Base64Encode(nonce \o AeadEncrypt(key, nonce, Aad(context),
                                                   Utf8Encode(plaintext)))

\* a payload that is the string value as it stands
StringPayload(value) ==
    [enc |-> FALSE, key |-> None, ctx |-> "", text |-> value]

DefaultCols == 80
DefaultRows == 24

\* Option::unwrap_or
UnwrapOr(o, d) == IF IsSome(o) THEN Unwrap(o) ELSE d

\* persist_id.map(trim).filter(non-empty)
TrimmedNonEmpty(o) ==
    IF IsSome(o) /\ Trim(Unwrap(o)) # <<>> THEN Some(Trim(Unwrap(o))) ELSE None

\* the names the registry holds (the set taken of unique_name)
TakenNames(reg) == {reg[i].name : i \in DOMAIN reg}

\* base_name, base_trimmed and final_name of create_session
FinalName(reg, name, is_shell) ==
    LET base_name == UnwrapOr(name, IF is_shell THEN StrShell ELSE StrAgent)
        base_trimmed == IF Trim(base_name) = <<>> THEN StrSession
                        ELSE Trim(base_name)
    IN  unique_name(TakenNames(reg), base_trimmed)

\* the PtySession create_session inserts (its handles are the variables
\* child and ret; the command string it shows is not modelled)
NewSession(final_name) ==
    [name |-> final_name, recording |-> None, closing |-> FALSE]

\* the reader thread as std::thread::spawn starts it
NewReader ==
    [pc |-> "read", carry |-> <<>>, reads |-> <<>>, held |-> None]

\* the error create_session returns before it allocates a PTY, "" if none
CreateEarlyError(command, persistent, persist_id, outcome) ==
    LET is_persistent == UnwrapOr(persistent, FALSE)
        cmd == Trim(UnwrapOr(command, <<>>))
    IN  IF is_persistent /\ cmd # <<>>
        THEN "persistent sessions currently require an empty command"
        ELSE IF is_persistent /\ TrimmedNonEmpty(persist_id) = None
        THEN "persistId is required for persistent sessions"
        ELSE IF is_persistent /\ outcome = "zellij_missing"
        THEN "bundled zellij missing in this build"
        ELSE IF is_persistent /\ outcome = "paths_fail"
        THEN "unable to determine app data dir"
        ELSE IF outcome = "openpty_fail" THEN "openpty failed"
        ELSE ""

\* the error create_session returns after it has drawn an id, "" if none
CreateLateError(outcome) ==
    IF outcome = "spawn_fail" THEN "spawn failed"
    ELSE IF outcome = "clone_reader_fail" THEN "clone reader failed"
    ELSE IF outcome = "take_writer_fail" THEN "take writer failed"
    ELSE ""

\* sessions.insert(id, PtySession { .. })
RegistryInsert(reg, id, session) == Insert(reg, id, session)

\* the child pair.slave.spawn_command starts: running, not yet asked to
\* terminate, not yet waited for
NewChild == [status |-> "running", code |-> 0, kills |-> 0, waited |-> "no"]

\* a create_session that registers the session before it takes the reader
\* and the writer of the PTY, and leaves it registered when that fails
CreateSession_InsertsEarly(name, command, cols, rows, persistent, persist_id, outcome) ==
    LET early == CreateEarlyError(command, persistent, persist_id, outcome)
        late == CreateLateError(outcome)
        id == IdStr(next_id)
        is_shell == Trim(UnwrapOr(command, <<>>)) = <<>>
        final_name == FinalName(sessions, name, is_shell)
        size == <<UnwrapOr(cols, DefaultCols), UnwrapOr(rows, DefaultRows)>>
    IN  /\ IF early # ""
           THEN /\ ret' = Ret("create", <<>>, early)
                /\ UNCHANGED <<next_id, sessions, child, reader, emitted>>
           ELSE IF outcome = "spawn_fail"
           THEN /\ next_id' = next_id + 1
                /\ ret' = [Ret("create", <<>>, late) EXCEPT
                               !.resized = Some(size)]
                /\ UNCHANGED <<sessions, child, reader, emitted>>
           ELSE /\ next_id' = next_id + 1
                /\ sessions' = RegistryInsert(sessions, id,
                                              NewSession(final_name))
                /\ child' = Insert(child, id, NewChild)
                /\ reader' = Insert(reader, id, NewReader)
                /\ emitted' = Insert(emitted, id, <<>>)
                /\ ret' = [Ret("create", IF late # "" THEN <<>> ELSE id, late)
                               EXCEPT !.resized = Some(size)]
        /\ UNCHANGED <<files, key_cache, keychain, now>>

\* create_session(name, command, cols, rows, persistent, persist_id);
\* outcome is the step at which the environment makes it fail, or "ok"
CreateSession(name, command, cols, rows, persistent, persist_id, outcome) ==
    LET early == CreateEarlyError(command, persistent, persist_id, outcome)
        late == CreateLateError(outcome)
        id == IdStr(next_id)
        is_shell == Trim(UnwrapOr(command, <<>>)) = <<>>
        final_name == FinalName(sessions, name, is_shell)
        size == <<UnwrapOr(cols, DefaultCols), UnwrapOr(rows, DefaultRows)>>
    IN  /\ IF early # ""
           THEN /\ ret' = Ret("create", <<>>, early)
                /\ UNCHANGED <<next_id, sessions, child, reader, emitted>>
           ELSE IF late # ""
           THEN /\ next_id' = next_id + 1
                /\ ret' = [Ret("create", <<>>, late) EXCEPT
                               !.resized = Some(size)]
                /\ UNCHANGED <<sessions, child, reader, emitted>>
           ELSE /\ next_id' = next_id + 1
                /\ sessions' = RegistryInsert(sessions, id,
                                              NewSession(final_name))
                /\ child' = Insert(child, id, NewChild)
                /\ reader' = Insert(reader, id, NewReader)
                /\ emitted' = Insert(emitted, id, <<>>)
                /\ ret' = [Ret("create", id, "") EXCEPT !.resized = Some(size)]
        /\ UNCHANGED <<files, key_cache, keychain, now>>

(* ------------------------------------------------------------------ *)
(* Commands on a session                                               *)
(* ------------------------------------------------------------------ *)

\* child.kill(): one more termination request
KillChild(c) == [c EXCEPT !.kills = @ + 1]

\* a close_session that takes the session out of the registry itself
CloseSession_Removes(id) ==
    /\ IF id \notin Registered \/ sessions[id].closing
       THEN UNCHANGED <<sessions, child>>
       ELSE /\ sessions' = Remove(sessions, id)
            /\ child' = [child EXCEPT ![id] = KillChild(@)]
    /\ ret' = Ret("close", id, "")
    /\ UNCHANGED <<next_id, reader, emitted, files, key_cache, keychain, now>>

\* a close_session that does not look at closing before it kills
CloseSession_KillAgain(id) ==
    /\ IF id \notin Registered
       THEN UNCHANGED <<sessions, child>>
       ELSE /\ sessions' = [sessions EXCEPT ![id].closing = TRUE]
            /\ child' = [child EXCEPT ![id] = KillChild(@)]
    /\ ret' = Ret("close", id, "")
    /\ UNCHANGED <<next_id, reader, emitted, files, key_cache, keychain, now>>

\* close_session(id)
CloseSession(id) ==
    /\ IF id \notin Registered \/ sessions[id].closing
       THEN UNCHANGED <<sessions, child>>
       ELSE /\ sessions' = [sessions EXCEPT ![id].closing = TRUE]
            /\ child' = [child EXCEPT ![id] = KillChild(@)]
    /\ ret' = Ret("close", id, "")
    /\ UNCHANGED <<next_id, reader, emitted, files, key_cache, keychain, now>>

StrUser == <<117, 115, 101, 114>>

\* an is_user that takes every write that names a source for the user's
IsUser_AnySource(source) == IsSome(source)

\* is_user = source.as_deref() == Some("user")
IsUser(source) == source = Some(StrUser)

\* what write_to_session prints to stderr when recording the input failed
StrRecordingFailed == "Failed to write recording event"

\* a recording branch that reports the error and keeps the recording
RecordWrite_KeepsRecording(session, data, fs, failAt, flushFails, dropFlushes) ==
    IF ~IsSome(session.recording)
    THEN [session |-> session, fs |-> fs, logged |-> ""]
    ELSE LET r == record_user_input(Unwrap(session.recording), data, fs, now,
                                    failAt, flushFails)
         IN  [session |-> [session EXCEPT !.recording = Some(r.rec)],
              fs |-> r.fs,
              logged |-> IF r.ok THEN "" ELSE StrRecordingFailed]

\* the recording branch of write_to_session (is_user): record the input,
\* and on an error say so on stderr and drop the recording (dropFlushes:
\* whether the dropped BufWriter still gets its buffer out)
RecordWrite(session, data, fs, failAt, flushFails, dropFlushes) ==
    IF ~IsSome(session.recording)
    THEN [session |-> session, fs |-> fs, logged |-> ""]
    ELSE LET r == record_user_input(Unwrap(session.recording), data, fs, now,
                                    failAt, flushFails)
         IN  IF r.ok
             THEN [session |-> [session EXCEPT !.recording = Some(r.rec)],
                   fs |-> r.fs, logged |-> ""]
             ELSE [session |-> [session EXCEPT !.recording = None],
                   fs |-> DropRecording(r.rec, r.fs, dropFlushes),
                   logged |-> StrRecordingFailed]

\* whether write_to_session goes on to the writer: the session is not closing
WriteHonored(session) == ~session.closing

\* write_to_session(id, data, source); writeFails is the outcome of
\* writer.write_all, the other three those of the recording
WriteToSession(id, data, source, writeFails, failAt, flushFails, dropFlushes) ==
    /\ IF id \notin Registered
       THEN /\ ret' = Ret("write", id, "unknown session")
            /\ UNCHANGED <<sessions, files>>
       ELSE IF ~WriteHonored(sessions[id])
       THEN /\ ret' = Ret("write", id, "")
            /\ UNCHANGED <<sessions, files>>
       ELSE IF writeFails
       THEN /\ ret' = Ret("write", id, "write failed")
            /\ UNCHANGED <<sessions, files>>
       ELSE IF IsUser(source)
       THEN LET r == RecordWrite(sessions[id], data, files, failAt,
                                 flushFails, dropFlushes)
            IN  /\ sessions' = [sessions EXCEPT ![id] = r.session]
                /\ files' = r.fs
                /\ ret' = [Ret("write", id, "") EXCEPT
                               !.delivered = Utf8Encode(data),
                               !.logged = r.logged]
       ELSE /\ ret' = [Ret("write", id, "") EXCEPT
                           !.delivered = Utf8Encode(data)]
            /\ UNCHANGED <<sessions, files>>
    /\ UNCHANGED <<next_id, child, reader, emitted, key_cache, keychain, now>>

\* whether resize_session goes on to the master: the session is not closing
ResizeHonored(session) == ~session.closing

\* resize_session(id, cols, rows); resizeFails is the outcome of master.resize
ResizeSession(id, cols, rows, resizeFails) ==
    /\ IF id \notin Registered
       THEN ret' = Ret("resize", id, "unknown session")
       ELSE IF ~ResizeHonored(sessions[id])
       THEN ret' = Ret("resize", id, "")
       ELSE IF resizeFails
       THEN ret' = Ret("resize", id, "resize failed")
       ELSE ret' = [Ret("resize", id, "") EXCEPT !.resized = Some(<<cols, rows>>)]
    /\ UNCHANGED <<next_id, sessions, child, reader, emitted, files,
                   key_cache, keychain, now>>

\* the bytes detach_session writes: Ctrl+o then d
DetachBytes == <<ChCtrlO, ChLowerD>>

\* detach_session(id); writeFails is the outcome of writer.write_all
DetachSession(id, writeFails) ==
    /\ IF id \notin Registered
       THEN ret' = Ret("detach", id, "")
       ELSE IF writeFails
       THEN ret' = Ret("detach", id, "write failed")
       ELSE ret' = [Ret("detach", id, "") EXCEPT !.delivered = DetachBytes]
    /\ UNCHANGED <<next_id, sessions, child, reader, emitted, files,
                   key_cache, keychain, now>>

(* ------------------------------------------------------------------ *)
(* Recording commands                                                  *)
(* ------------------------------------------------------------------ *)

\* OpenOptions::new().create(true).write(true).truncate(true).open(path)
OpenTruncate(fs, path) == Insert(fs, path, <<>>)

\* the SessionRecording start_session_recording attaches, its meta line
\* still in the BufWriter
NewRecording(safe_id, enc_key, created_at, encrypt_enabled) ==
    [id |-> safe_id, pos |-> 0,
     buf |-> LineCells(MetaLine(created_at, encrypt_enabled)),
     started_at |-> now, last_flush |-> now, unflushed_bytes |-> 0,
     input_buffer |-> <<>>, enc_key |-> enc_key]

\* start_session_recording(id, recording_id, encrypt); keyEnv and fresh are
\* the credential store's behaviour, io the step at which the file system
\* fails ("dir_fail", "open_fail", "flush_fail") or "ok"
StartSessionRecording(id, recording_id, encrypt, keyEnv, fresh, io, dropFlushes) ==
    LET safe_id == sanitize_recording_id(recording_id)
        encrypt_enabled == UnwrapOr(encrypt, TRUE)
        k == get_or_create_master_key(key_cache, keychain, keyEnv, fresh)
        enc_key == IF encrypt_enabled THEN Some(k.key) ELSE None
        opened == OpenTruncate(files, safe_id)
        rec == NewRecording(safe_id, enc_key, now, encrypt_enabled)
        flushed == FlushWriter(rec, opened)
        Returns(err) == [Ret("start", id, err) EXCEPT !.keychain_calls =
                             IF encrypt_enabled THEN k.calls ELSE 0]
    IN  /\ IF encrypt_enabled
           THEN key_cache' = k.cache /\ keychain' = k.store
           ELSE UNCHANGED <<key_cache, keychain>>
        /\ IF encrypt_enabled /\ ~k.ok
           THEN /\ ret' = Returns(k.err)
                /\ UNCHANGED <<sessions, files>>
           ELSE IF id \notin Registered
           THEN /\ ret' = Returns("unknown session")
                /\ UNCHANGED <<sessions, files>>
           ELSE IF IsSome(sessions[id].recording)
           THEN /\ ret' = Returns("already recording")
                /\ UNCHANGED <<sessions, files>>
           ELSE IF io = "dir_fail"
           THEN /\ ret' = Returns("create dir failed")
                /\ UNCHANGED <<sessions, files>>
           ELSE IF io = "open_fail"
           THEN /\ ret' = Returns("open failed")
                /\ UNCHANGED <<sessions, files>>
           ELSE IF io = "flush_fail"
           THEN /\ ret' = Returns("flush failed")
                /\ files' = DropRecording(rec, opened, dropFlushes)
                /\ UNCHANGED sessions
           ELSE /\ ret' = Returns("")
                /\ files' = flushed.fs
                /\ sessions' = [sessions EXCEPT ![id].recording =
                                    Some(flushed.rec)]
        /\ UNCHANGED <<next_id, child, reader, emitted, now>>

\* stop_session_recording(id); flushFails is the outcome of writer.flush()
StopSessionRecording(id, flushFails, dropFlushes) ==
    /\ IF id \notin Registered
       THEN /\ ret' = Ret("stop", id, "unknown session")
            /\ UNCHANGED <<sessions, files>>
       ELSE IF ~IsSome(sessions[id].recording)
       THEN /\ ret' = Ret("stop", id, "")
            /\ UNCHANGED <<sessions, files>>
       ELSE LET rec == Unwrap(sessions[id].recording)
            IN  /\ sessions' = [sessions EXCEPT ![id].recording = None]
                /\ IF flushFails
                   THEN /\ ret' = Ret("stop", id, "flush failed")
                        /\ files' = DropRecording(rec, files, dropFlushes)
                   ELSE /\ ret' = Ret("stop", id, "")
                        /\ files' = FlushWriter(rec, files).fs
    /\ UNCHANGED <<next_id, child, reader, emitted, key_cache, keychain, now>>

(* ------------------------------------------------------------------ *)
(* The child and the reader thread of a session                        *)
(* ------------------------------------------------------------------ *)

\* the child process ends with exit code code (by itself or killed)
ChildExit(id, code) ==
    /\ id \in Spawned
    /\ child[id].status = "running"
    /\ child' = [child EXCEPT ![id].status = "exited", ![id].code = code]
    /\ ret' = NoCommand
    /\ UNCHANGED <<next_id, sessions, reader, emitted, files, key_cache,
                   keychain, now>>

OutputEvent(data) == [event |-> "pty-output", data |-> data, exit_code |-> None]
ExitEvent(exit_code) == [event |-> "pty-exit", data |-> <<>>, exit_code |-> exit_code]

\* window.emit(event)
Emit(log, e) == Append(log, e)

\* window.emit("pty-output", ..) unless data is empty
EmitOutput(log, data) == IF data = <<>> THEN log ELSE Emit(log, OutputEvent(data))

\* Ok(n) of reader.read: decode the chunk and emit what it completes
ReaderRead(id, chunk) ==
    /\ id \in Spawned
    /\ reader[id].pc = "read"
    /\ LET d == decode_utf8_stream(reader[id].carry, chunk)
       IN  /\ reader' = [reader EXCEPT ![id].carry = d.carry,
                                       ![id].reads = Append(@, chunk)]
           /\ emitted' = [emitted EXCEPT ![id] = EmitOutput(@, d.out)]
    /\ ret' = NoCommand
    /\ UNCHANGED <<next_id, sessions, child, files, key_cache, keychain,
                   now>>

\* Ok(0), which the PTY gives once the child is gone, or Err(_) of
\* reader.read: leave the loop and emit what is left of the carry
ReaderEnd(id, readError) ==
    /\ id \in Spawned
    /\ reader[id].pc = "read"
    /\ readError \/ child[id].status = "exited"
    /\ reader' = [reader EXCEPT ![id].pc = "remove", ![id].carry = <<>>]
    /\ emitted' = [emitted EXCEPT ![id] =
                       EmitOutput(@, FromUtf8Lossy(reader[id].carry))]
    /\ ret' = NoCommand
    /\ UNCHANGED <<next_id, sessions, child, files, key_cache, keychain,
                   now>>

\* sessions.remove(&id) under the lock
RegistryRemove(reg, id) == Remove(reg, id)

\* the reader takes its session out of the registry
ReaderRemove(id) ==
    /\ id \in Spawned
    /\ reader[id].pc = "remove"
    /\ reader' = [reader EXCEPT
                      ![id].pc = "wait",
                      ![id].held = IF id \in Registered
                                   THEN Some(sessions[id]) ELSE None]
    /\ sessions' = RegistryRemove(sessions, id)
    /\ ret' = NoCommand
    /\ UNCHANGED <<next_id, child, emitted, files, key_cache, keychain,
                   now>>

\* an exit code taken from a wait that may have failed
ExitCodeOf_IgnoresWaitError(held, c, waitFails) ==
    IF IsSome(held) THEN Some(c.code) ELSE None

\* exit_code = session.and_then(|s| s.child.wait().ok()..)
ExitCodeOf(held, c, waitFails) ==
    IF IsSome(held) /\ ~waitFails THEN Some(c.code) ELSE None

\* child.wait() returns once the child has exited, or fails at once; the
\* session taken from the registry is dropped and the exit event emitted
ReaderWaitExit(id, waitFails, dropFlushes) ==
    /\ id \in Spawned
    /\ reader[id].pc = "wait"
    /\ IsSome(reader[id].held) /\ ~waitFails => child[id].status = "exited"
    /\ child' = IF IsSome(reader[id].held)
                THEN [child EXCEPT ![id].waited =
                                       IF waitFails THEN "err" ELSE "ok"]
                ELSE child
    /\ emitted' = [emitted EXCEPT ![id] =
           Emit(@, ExitEvent(ExitCodeOf(reader[id].held, child[id], waitFails)))]
    /\ files' = IF IsSome(reader[id].held)
                   /\ IsSome(Unwrap(reader[id].held).recording)
                THEN DropRecording(Unwrap(Unwrap(reader[id].held).recording),
                                   files, dropFlushes)
                ELSE files
    /\ reader' = [reader EXCEPT ![id].pc = "done", ![id].held = None]
    /\ ret' = NoCommand
    /\ UNCHANGED <<next_id, sessions, key_cache, keychain, now>>

\* load_recording(recording_id, decrypt) as a command: what it returns, and
\* what it does to the key manager
LoadRecording(recording_id, decrypt, keyEnv, fresh) ==
    LET r == load_recording(files, recording_id, decrypt, key_cache, keychain,
                            keyEnv, fresh)
    IN  /\ key_cache' = r.cache
        /\ keychain' = r.store
        /\ ret' = [Ret("load", sanitize_recording_id(recording_id), r.err)
                       EXCEPT !.loaded = IF r.err = ""
                                         THEN Some([meta |-> r.meta,
                                                    events |-> r.events])
                                         ELSE None,
                              !.keychain_calls = r.calls]
        /\ UNCHANGED <<next_id, sessions, child, reader, emitted, files, now>>

\* prepare_secure_storage(): the key is fetched and dropped
PrepareSecureStorage(keyEnv, fresh) ==
    LET k == get_or_create_master_key(key_cache, keychain, keyEnv, fresh)
    IN  /\ key_cache' = k.cache
        /\ keychain' = k.store
        /\ ret' = [Ret("prepare", <<>>, k.err) EXCEPT
                       !.keychain_calls = k.calls]
        /\ UNCHANGED <<next_id, sessions, child, reader, emitted, files, now>>

\* reset_master_key_cache(): the state of the cache after it
CacheAfterReset == [state |-> "Uninitialized", key |-> 0, err |-> ""]

\* reset_secure_storage()
ResetSecureStorage ==
    /\ key_cache' = CacheAfterReset
    /\ ret' = Ret("reset", <<>>, "")
    /\ UNCHANGED <<next_id, sessions, child, reader, emitted, files,
                   keychain, now>>

(* ------------------------------------------------------------------ *)
(* Persistent sessions: the bundled zellij (pty.rs)                    *)
(* ------------------------------------------------------------------ *)

\* AGENTS_UI_ZELLIJ_PREFIX = "agents-ui-"
AgentsUiZellijPrefix == <<97, 103, 101, 110, 116, 115, 45, 117, 105, 45>>

\* char::is_ascii_alphanumeric
IsAsciiAlphanumeric(ch) == ch \in 48..57 \/ ch \in 65..90 \/ ch \in 97..122

\* a session name that takes the persist id as it is
agents_ui_zellij_session_name_Raw(persist_id) ==
    AgentsUiZellijPrefix \o persist_id

\* agents_ui_zellij_session_name
agents_ui_zellij_session_name(persist_id) ==
    LET out == AgentsUiZellijPrefix \o
                   [k \in 1..Len(persist_id) |->
                       IF IsAsciiAlphanumeric(persist_id[k])
                          \/ persist_id[k] = ChDash \/ persist_id[k] = 95
                       THEN persist_id[k] ELSE 95]
    IN  IF out = AgentsUiZellijPrefix THEN out \o StrSession ELSE out

\* The environment of the bundled zellij is z: whether the binary is found
\* (zellij), whether the app data directory can be made (app_data), whether
\* the preferred and the legacy socket directory can be made (preferred,
\* legacy_made) and whether the legacy one is there (legacy_exists).
\* ensure_zellij_paths: the socket directory, None if there is none
ensure_zellij_paths(z) ==
    IF ~z.app_data THEN None
    ELSE IF z.preferred THEN Some("preferred")
    ELSE IF z.legacy_made THEN Some("legacy")
    ELSE None

\* zellij_socket_dir_candidates(preferred); the legacy directory is there
\* when it was or when ensure_zellij_paths has made it
zellij_socket_dir_candidates(preferred, z) ==
    IF (z.legacy_exists \/ preferred = "legacy") /\ preferred # "legacy"
    THEN <<preferred, "legacy">>
    ELSE <<preferred>>

\* a run of the bundled zellij: its arguments and ZELLIJ_SOCKET_DIR
ZellijCommand(verb, session_name, socket_dir) ==
    [verb |-> verb, session_name |-> session_name, socket_dir |-> socket_dir]

\* the loop of kill_persistent_session from candidate i on; run[dir] is how
\* kill-session and delete-session end in dir ("run_fail": the binary could
\* not be run, "success", or "fail" with what it wrote to stderr)
RECURSIVE KillLoop(_, _, _, _, _, _)
KillLoop(session_name, dirs, run, i, last_err, invoked) ==
    IF i > Len(dirs)
    THEN [err |-> IF last_err # "" THEN last_err
                  ELSE "failed to kill zellij session",
          invoked |-> invoked]
    ELSE LET r == run[dirs[i]]
             killed == Append(invoked, ZellijCommand("kill-session",
                                                     session_name, dirs[i]))
             deleted == Append(killed, ZellijCommand("delete-session",
                                                     session_name, dirs[i]))
         IN  IF r.kill = "run_fail"
             THEN [err |-> "failed to run bundled zellij", invoked |-> killed]
             ELSE IF r.kill = "success"
             THEN [err |-> "", invoked |-> killed]
             ELSE IF r.delete = "success"
             THEN [err |-> "", invoked |-> deleted]
             ELSE LET stderr == IF r.delete = "run_fail" THEN r.kill_stderr
                                ELSE r.delete_stderr
                  IN  KillLoop(session_name, dirs, run, i + 1,
                               IF stderr # "" THEN stderr ELSE last_err,
                               deleted)

\* kill_persistent_session(persist_id) in the environment z, the runs of
\* zellij ending as run says
kill_persistent_session(persist_id, z, run) ==
    LET trimmed == Trim(persist_id)
        session_name == agents_ui_zellij_session_name(trimmed)
        paths == ensure_zellij_paths(z)
    IN  IF ~z.zellij
        THEN [err |-> "bundled zellij missing in this build",
              invoked |-> <<>>]
        ELSE IF paths = None
        THEN [err |-> "unable to determine app data dir", invoked |-> <<>>]
        ELSE IF trimmed = <<>>
        THEN [err |-> "missing persist id", invoked |-> <<>>]
        ELSE IF ~StartsWith(session_name, AgentsUiZellijPrefix)
        THEN [err |-> "refusing to kill non agents-ui session",
              invoked |-> <<>>]
        ELSE KillLoop(session_name,
                      zellij_socket_dir_candidates(Unwrap(paths), z), run, 1,
                      "", <<>>)

\* a choice of socket directory that takes the legacy directory whenever it
\* is a candidate
SessionSocketDir_PrefersLegacy(socket_dir, candidates, listed) ==
    IF \E i \in 1..Len(candidates) : candidates[i] = "legacy"
    THEN [socket_dir |-> "legacy", tried |-> Len(candidates)]
    ELSE [socket_dir |-> socket_dir, tried |-> Len(candidates)]

\* the socket directory create_session attaches in: that of
\* ensure_zellij_paths, unless zellij_list_sessions names the session in a
\* candidate, the first such candidate then; listed[dir] is how the listing
\* of dir ends ("err", or the session "present" or "absent" in it), tried
\* the number of candidates listed
SessionSocketDir(socket_dir, candidates, listed) ==
    LET hits == {i \in 1..Len(candidates) : listed[candidates[i]] = "present"}
    IN  IF hits = {}
        THEN [socket_dir |-> socket_dir, tried |-> Len(candidates)]
        ELSE LET first == CHOOSE i \in hits : \A j \in hits : i <= j
             IN  [socket_dir |-> candidates[first], tried |-> first]

\* create_session(None, None, .., Some(true), Some(persist_id)) in the
\* environment z: the session runs "zellij attach -c <session>" with
\* ZELLIJ_SOCKET_DIR set; outcome is the step at which the PTY fails, or
\* "ok"
CreatePersistentSession(persist_id, z, listed, outcome) ==
    LET paths == ensure_zellij_paths(z)
        env == IF ~z.zellij THEN "zellij_missing"
               ELSE IF paths = None THEN "paths_fail"
               ELSE outcome
        early == CreateEarlyError(None, Some(TRUE), Some(persist_id), env)
        late == CreateLateError(env)
        id == IdStr(next_id)
        final_name == FinalName(sessions, None, TRUE)
        size == <<DefaultCols, DefaultRows>>
        zellij_session == agents_ui_zellij_session_name(Trim(persist_id))
        candidates == zellij_socket_dir_candidates(Unwrap(paths), z)
        chosen == SessionSocketDir(Unwrap(paths), candidates, listed)
        listings == [i \in 1..chosen.tried |->
                        ZellijCommand("list-sessions", <<>>, candidates[i])]
        attach == ZellijCommand("attach", zellij_session, chosen.socket_dir)
    IN  /\ IF early # ""
           THEN /\ ret' = Ret("create", <<>>, early)
                /\ UNCHANGED <<next_id, sessions, child, reader, emitted>>
           ELSE IF late # ""
           THEN /\ next_id' = next_id + 1
                /\ ret' = [Ret("create", <<>>, late) EXCEPT
                               !.resized = Some(size),
                               !.invoked = listings]
                /\ UNCHANGED <<sessions, child, reader, emitted>>
           ELSE /\ next_id' = next_id + 1
                /\ sessions' = RegistryInsert(sessions, id,
                                              NewSession(final_name))
                /\ child' = Insert(child, id, NewChild)
                /\ reader' = Insert(reader, id, NewReader)
                /\ emitted' = Insert(emitted, id, <<>>)
                /\ ret' = [Ret("create", id, "") EXCEPT
                               !.resized = Some(size),
                               !.invoked = Append(listings, attach)]
        /\ UNCHANGED <<files, key_cache, keychain, now>>

KillPersistentSession(persist_id, z, run) ==
    LET r == kill_persistent_session(persist_id, z, run)
    IN  /\ ret' = [Ret("kill", persist_id, r.err) EXCEPT
                       !.invoked = r.invoked]
        /\ UNCHANGED <<next_id, sessions, child, reader, emitted, files,
                       key_cache, keychain, now>>

\* a call of encrypt_string_with_key(key, context, plaintext) that draws
\* nonce
EncryptString(key, context, plaintext, nonce) ==
    /\ ret' = [Ret("encrypt", <<>>, "") EXCEPT !.value =
                   Some(encrypt_string_with_key(key, context, plaintext,
                                                nonce))]
    /\ UNCHANGED <<next_id, sessions, child, reader, emitted, files,
                   key_cache, keychain, now>>

\* a call of decrypt_string_with_key(key, context, value)
DecryptString(key, context, value) ==
    LET d == decrypt_string_with_key(key, context, StringPayload(value))
    IN  /\ ret' = [Ret("decrypt", <<>>, d.err) EXCEPT !.value =
                       IF d.ok THEN Some(d.text) ELSE None]
        /\ UNCHANGED <<next_id, sessions, child, reader, emitted, files,
                       key_cache, keychain, now>>

\* time passes: Instant::now() and now_epoch_ms() move on by millis
Tick(millis) ==
    /\ now' = now + millis
    /\ ret' = NoCommand
    /\ UNCHANGED <<next_id, sessions, child, reader, emitted, files,
                   key_cache, keychain>>

(* ------------------------------------------------------------------ *)
(* Inputs                                                              *)
(* ------------------------------------------------------------------ *)

\* ids a command may name under a bound of n sessions: those the counter
\* can hand out
IdInputs(n) == {IdStr(k) : k \in 0..(n - 1)}

StrX == <<120>>
StrX2 == <<120, ChDash, 50>>
StrLs == <<108, 115>>
StrP == <<112>>
StrR == <<114>>

\* a create_session request
Request(name, command, persistent, persist_id) ==
    [name |-> name, command |-> command, cols |-> None, rows |-> None,
     persistent |-> persistent, persist_id |-> persist_id]

\* a login shell; a persistent session; and the two persistent requests
\* that argument validation refuses
PlainRequest == Request(None, None, None, None)
PersistentRequest == Request(None, None, Some(TRUE), Some(StrP))
RefusedRequests == {Request(None, Some(StrLs), Some(TRUE), Some(StrP)),
                    Request(None, None, Some(TRUE), Some(<<32>>))}

CreateOutcomes == {"ok", "zellij_missing", "paths_fail", "openpty_fail",
                   "spawn_fail", "clone_reader_fail", "take_writer_fail"}

\* the outcomes that matter to a request (the others repeat "ok")
OutcomesFor(req) ==
    IF req \in RefusedRequests THEN {"ok"}
    ELSE IF req.persistent = Some(TRUE) THEN CreateOutcomes
    ELSE CreateOutcomes \ {"zellij_missing", "paths_fail"}

Create(req, outcome) ==
    CreateSession(req.name, req.command, req.cols, req.rows, req.persistent,
                  req.persist_id, outcome)

\* what is written: "a" followed by a carriage return
DataInputs == {<<97, ChCR>>}

\* what a user types, key by key: two letters, backspace and delete, Ctrl+U,
\* tab, a bell, return and line feed
InputChars == {97, 98, ChDEL, ChBS, ChNAK, ChTAB, ChBEL, ChCR, ChLF}

\* what arrives in one write besides single keys: a, b, delete, c, return;
\* return with its line feed; two lines; the arrow-up key; and an OSC
\* sequence that holds a return
StrAbDelCCr == <<97, 98, ChDEL, 99, ChCR>>
StrCrLf == <<ChCR, ChLF>>
StrTwoLines == <<97, ChCR, 98, ChLF>>
StrArrowUp == <<ChESC, 91, 65>>
StrOscWithCr == <<ChESC, 93, ChCR, ChBEL>>
InputStrings ==
    {<<ch>> : ch \in InputChars}
        \cup {StrAbDelCCr, StrCrLf, StrTwoLines, StrArrowUp, StrOscWithCr}
SourceInputs == {None, Some(StrUser)}

\* the I/O outcomes of the recording branch of a write
NoRecordingFailure == [failAt |-> 0, flushFails |-> FALSE, dropFlushes |-> FALSE]
RecordingOutcomes ==
    {NoRecordingFailure,
     [failAt |-> 1, flushFails |-> FALSE, dropFlushes |-> FALSE],
     [failAt |-> 0, flushFails |-> TRUE, dropFlushes |-> FALSE],
     [failAt |-> 0, flushFails |-> TRUE, dropFlushes |-> TRUE]}

\* whether a write to id from source reaches a recording
Records(id, source) ==
    /\ id \in Registered
    /\ ~sessions[id].closing
    /\ IsUser(source)
    /\ IsSome(sessions[id].recording)

\* the writer of the recording of id has not passed the bound on its offset
FileHasRoom(id) ==
    LET rec == Unwrap(sessions[id].recording)
    IN  rec.pos + Len(rec.buf) <= MaxFileLen

Write(id, data, source) ==
    IF Records(id, source)
    THEN /\ FileHasRoom(id)
         /\ \E o \in RecordingOutcomes :
               WriteToSession(id, data, source, FALSE, o.failAt, o.flushFails,
                              o.dropFlushes)
    ELSE \E writeFails \in BOOLEAN :
             WriteToSession(id, data, source, writeFails, 0, FALSE, FALSE)

SizeInputs == {<<100, 30>>}

\* recording ids: "r" and " r", which sanitize to the same file
RecordingIdInputs == {StrR, <<32>> \o StrR}
EncryptInputs == {None, Some(FALSE)}
KeyEnvInputs == {"ok", "read_fail"}
KeyInputs == {1}
StartIoInputs == {"ok", "dir_fail", "open_fail", "flush_fail"}

Start(id, recording_id, encrypt, ios) ==
    \E keyEnv \in (IF UnwrapOr(encrypt, TRUE) /\ key_cache.state = "Uninitialized"
                   THEN KeyEnvInputs ELSE {"ok"}),
       io \in (IF id \in Registered /\ ~IsSome(sessions[id].recording)
               THEN ios ELSE {"ok"}) :
        \E dropFlushes \in (IF io = "flush_fail" THEN BOOLEAN ELSE {FALSE}),
           fresh \in KeyInputs :
            StartSessionRecording(id, recording_id, encrypt, keyEnv, fresh,
                                  io, dropFlushes)

Stop(id) ==
    \E flushFails \in (IF id \in Registered /\ IsSome(sessions[id].recording)
                       THEN BOOLEAN ELSE {FALSE}) :
        StopSessionRecording(id, flushFails, FALSE)

\* what a read returns: "a", and the two bytes of U+00E9 one by one
ChunkInputs == {<<97>>, <<195>>, <<169>>}
ExitCodeInputs == {0, 1}

\* the names create_session is asked for: none, "x", "x-2" and " x"
NameInputs == {None, Some(StrX), Some(StrX2), Some(<<32>> \o StrX)}

(* ------------------------------------------------------------------ *)
(* Spec: the session engine without recordings: creation with its      *)
(* failures, the commands on a session, the reaping of sessions        *)
(* (children that print nothing)                                       *)
(* ------------------------------------------------------------------ *)

Ids == IdInputs(MaxSessions)

Next ==
    \/ \E req \in {PlainRequest, PersistentRequest} \cup RefusedRequests :
          \E outcome \in OutcomesFor(req) :
              next_id < MaxSessions /\ Create(req, outcome)
    \/ \E id \in Ids : CloseSession(id)
    \/ \E id \in Ids, data \in DataInputs, source \in SourceInputs :
          Write(id, data, source)
    \/ \E id \in Ids, size \in SizeInputs, resizeFails \in BOOLEAN :
          ResizeSession(id, size[1], size[2], resizeFails)
    \/ \E id \in Ids, writeFails \in BOOLEAN : DetachSession(id, writeFails)
    \/ \E id \in Ids : ChildExit(id, 0)
    \/ \E id \in Ids, readError \in BOOLEAN : ReaderEnd(id, readError)
    \/ \E id \in Ids : ReaderRemove(id)
    \/ \E id \in Ids : ReaderWaitExit(id, FALSE, FALSE)

Spec == Init /\ [][Next]_vars

(* ------------------------------------------------------------------ *)
(* SpecNames: sessions created under colliding names, and reaped       *)
(* ------------------------------------------------------------------ *)

NamedIds == IdInputs(MaxNamed)

NextNames ==
    \/ \E name \in NameInputs :
          next_id < MaxNamed /\ Create(Request(name, None, None, None), "ok")
    \/ \E id \in NamedIds : ChildExit(id, 0)
    \/ \E id \in NamedIds : ReaderEnd(id, FALSE)
    \/ \E id \in NamedIds : ReaderRemove(id)
    \/ \E id \in NamedIds : ReaderWaitExit(id, FALSE, FALSE)

SpecNames == Init /\ [][NextNames]_vars

(* ------------------------------------------------------------------ *)
(* SpecReader: the reader thread of a session whose child prints       *)
(* ------------------------------------------------------------------ *)

ReaderIds == IdInputs(MaxReaders)

NextReader ==
    \/ next_id < MaxReaders /\ Create(PlainRequest, "ok")
    \/ \E id \in ReaderIds, code \in ExitCodeInputs : ChildExit(id, code)
    \/ \E id \in ReaderIds, chunk \in ChunkInputs :
          id \in Spawned /\ Len(reader[id].reads) < MaxReads
          /\ ReaderRead(id, chunk)
    \/ \E id \in ReaderIds, readError \in BOOLEAN : ReaderEnd(id, readError)
    \/ \E id \in ReaderIds : ReaderRemove(id)
    \/ \E id \in ReaderIds, waitFails \in BOOLEAN :
          ReaderWaitExit(id, waitFails, FALSE)

SpecReader == Init /\ [][NextReader]_vars

\* SpecReaping: the same with close_session, under the scheduling the
\* reader thread can count on: the registry lock is released in the end,
\* so the thread gets to remove its session, and child.wait() returns once
\* the child has exited.  Nothing makes the child exit, the PTY end its
\* stream or a wait fail.
NextReaping ==
    \/ NextReader
    \/ \E id \in ReaderIds : CloseSession(id)

SpecReaping ==
    /\ Init
    /\ [][NextReaping]_vars
    /\ \A id \in ReaderIds :
           /\ WF_vars(ReaderRemove(id))
           /\ WF_vars(ReaderWaitExit(id, FALSE, FALSE))

(* ------------------------------------------------------------------ *)
(* SpecRec and SpecShared: sessions with recordings                    *)
(* ------------------------------------------------------------------ *)

NextRec(n, encrypts, ios) ==
    \/ next_id < n /\ Create(PlainRequest, "ok")
    \/ \E id \in IdInputs(n) : CloseSession(id)
    \/ \E id \in IdInputs(n), data \in DataInputs, source \in SourceInputs :
          Write(id, data, source)
    \/ \E id \in IdInputs(n), size \in SizeInputs :
          ResizeSession(id, size[1], size[2], FALSE)
    \/ \E id \in IdInputs(n), recording_id \in RecordingIdInputs,
          encrypt \in encrypts : Start(id, recording_id, encrypt, ios)
    \/ \E id \in IdInputs(n) : Stop(id)
    \/ \E id \in IdInputs(n) : ChildExit(id, 0)
    \/ \E id \in IdInputs(n), readError \in BOOLEAN : ReaderEnd(id, readError)
    \/ \E id \in IdInputs(n) : ReaderRemove(id)
    \/ \E id \in IdInputs(n), dropFlushes \in BOOLEAN :
          ReaderWaitExit(id, FALSE, dropFlushes)

\* SpecRec: recordings in cleartext, with the failures of the file system
SpecRec == Init /\ [][NextRec(MaxRecording, {Some(FALSE)}, StartIoInputs)]_vars

\* SpecKeyed: recordings encrypted or not, with the failures of the
\* credential store and of the file system
SpecKeyed == Init /\ [][NextRec(MaxKeyed, EncryptInputs, StartIoInputs)]_vars

\* SpecShared: sessions that record in cleartext under one recording id,
\* every start_session_recording finding its file system in order
SpecShared == Init /\ [][NextRec(MaxSharing, {Some(FALSE)}, {"ok"})]_vars

(* ------------------------------------------------------------------ *)
(* SpecInput: what a user types into the first session while it is     *)
(* recorded in cleartext                                               *)
(* ------------------------------------------------------------------ *)

TypingIds == {IdStr(0)}

\* the recording of id holds fewer than MaxTyped characters of an
\* unfinished line
BufferHasRoom(id) ==
    Len(Unwrap(sessions[id].recording).input_buffer) < MaxTyped

NextInput ==
    \/ IdStr(next_id) \in TypingIds /\ Create(PlainRequest, "ok")
    \/ \E id \in TypingIds :
          Start(id, StrR, Some(FALSE), {"ok"})
    \/ \E id \in TypingIds, data \in InputStrings :
          /\ Records(id, Some(StrUser)) => FileHasRoom(id) /\ BufferHasRoom(id)
          /\ WriteToSession(id, data, Some(StrUser), FALSE, 0, FALSE, FALSE)
    \/ \E id \in TypingIds : StopSessionRecording(id, FALSE, FALSE)

SpecInput == Init /\ [][NextInput]_vars

(* ------------------------------------------------------------------ *)
(* SpecEscapes: escape sequences typed into a recorded session, whole  *)
(* and cut in two at every place                                       *)
(* ------------------------------------------------------------------ *)

\* the sequences, each with an "a" behind it: CSI (ESC [ 1 A), OSC ended by
\* BEL (ESC ] x BEL), OSC ended by ST (ESC ] x ESC \), DCS (ESC P x ESC \)
\* and a single-character escape (ESC c)
EscapeSequences ==
    {<<ChESC, 91, 49, 65, 97>>,
     <<ChESC, 93, 120, ChBEL, 97>>,
     <<ChESC, 93, 120, ChESC, ChBackslash, 97>>,
     <<ChESC, 80, 120, ChESC, ChBackslash, 97>>,
     <<ChESC, 99, 97>>}

\* the two parts of every cut of s
Pieces(s) ==
    UNION {{SubSeq(s, 1, k), SubSeq(s, k + 1, Len(s))} : k \in 1..(Len(s) - 1)}

EscapeStrings ==
    EscapeSequences \cup UNION {Pieces(s) : s \in EscapeSequences}
        \cup {<<97>>, <<ChCR>>}

NextEscapes ==
    \/ IdStr(next_id) \in TypingIds /\ Create(PlainRequest, "ok")
    \/ \E id \in TypingIds :
          Start(id, StrR, Some(FALSE), {"ok"})
    \/ \E id \in TypingIds, data \in EscapeStrings :
          /\ Records(id, Some(StrUser)) => FileHasRoom(id) /\ BufferHasRoom(id)
          /\ WriteToSession(id, data, Some(StrUser), FALSE, 0, FALSE, FALSE)
    \/ \E id \in TypingIds : StopSessionRecording(id, FALSE, FALSE)

SpecEscapes == Init /\ [][NextEscapes]_vars

(* ------------------------------------------------------------------ *)
(* SpecEvents: one recorded session whose recording ends in every way: *)
(* it is stopped, a failure detaches it, the session is reaped          *)
(* ------------------------------------------------------------------ *)

\* what the user writes: "a"; a bell, "a" and a return; and two lines with
\* a "c" behind them
EventInputs ==
    {<<97>>, <<ChBEL, 97, ChCR>>, <<97, ChCR, 98, ChLF, 99>>}

NextEvents ==
    \/ IdStr(next_id) \in TypingIds /\ Create(PlainRequest, "ok")
    \/ \E id \in TypingIds : Start(id, StrR, Some(FALSE), {"ok"})
    \/ \E id \in TypingIds, data \in EventInputs :
          /\ Records(id, Some(StrUser)) => BufferHasRoom(id)
          /\ Write(id, data, Some(StrUser))
    \/ \E id \in TypingIds : Stop(id)
    \/ now < MaxTicks * FlushMillis /\ Tick(FlushMillis)
    \/ \E id \in TypingIds : ChildExit(id, 0)
    \/ \E id \in TypingIds : ReaderEnd(id, FALSE)
    \/ \E id \in TypingIds : ReaderRemove(id)
    \/ \E id \in TypingIds, dropFlushes \in BOOLEAN :
          ReaderWaitExit(id, FALSE, dropFlushes)

SpecEvents == Init /\ [][NextEvents]_vars

(* ------------------------------------------------------------------ *)
(* SpecSources: a recorded session that the user and others write to   *)
(* and whose child prints                                              *)
(* ------------------------------------------------------------------ *)

\* what the user writes ("a", and "a" with a return), what the others
\* write ("b", and "b" with a return) and what the child prints ("c")
UserData == {<<97>>, <<97, ChCR>>}
OtherData == {<<98>>, <<98, ChCR>>}
PrintedChunks == {<<99>>}

\* the sources that are not the user: none, "agent", and "User"
OtherSources == {None, Some(StrAgent), Some(<<85, 115, 101, 114>>)}

NextSources ==
    \/ IdStr(next_id) \in TypingIds /\ Create(PlainRequest, "ok")
    \/ \E id \in TypingIds : CloseSession(id)
    \/ \E id \in TypingIds : Start(id, StrR, Some(FALSE), {"ok"})
    \/ \E id \in TypingIds, data \in UserData :
          /\ Records(id, Some(StrUser)) => FileHasRoom(id) /\ BufferHasRoom(id)
          /\ WriteToSession(id, data, Some(StrUser), FALSE, 0, FALSE, FALSE)
    \/ \E id \in TypingIds, data \in OtherData, source \in OtherSources :
          WriteToSession(id, data, source, FALSE, 0, FALSE, FALSE)
    \/ \E id \in TypingIds : ChildExit(id, 0)
    \/ \E id \in TypingIds, chunk \in PrintedChunks :
          id \in Spawned /\ Len(reader[id].reads) < MaxReads
          /\ ReaderRead(id, chunk)
    \/ \E id \in TypingIds : ReaderEnd(id, FALSE)
    \/ \E id \in TypingIds : ReaderRemove(id)
    \/ \E id \in TypingIds : ReaderWaitExit(id, FALSE, TRUE)

SpecSources == Init /\ [][NextSources]_vars

(* ------------------------------------------------------------------ *)
(* SpecLoad: a session recorded in cleartext, line by line, and the    *)
(* loading of its log, while time passes                               *)
(* ------------------------------------------------------------------ *)

\* the lines the user writes: "echo hi" with a line feed, "a" with a
\* return, and a line that starts like a ciphertext string: the prefix and
\* 39 characters of the base64 alphabet, with a line feed
StrEchoHi == <<101, 99, 104, 111, 32, 104, 105, ChLF>>
StrLikeCiphertext == EncPrefix \o [k \in 1..39 |-> 65] \o <<ChLF>>
LineInputs == {StrEchoHi, <<97, ChCR>>, StrLikeCiphertext}

DecryptInputs == {None, Some(FALSE)}

NextLoad ==
    \/ IdStr(next_id) \in TypingIds /\ Create(PlainRequest, "ok")
    \/ \E id \in TypingIds : Start(id, StrR, Some(FALSE), {"ok"})
    \/ \E id \in TypingIds, data \in LineInputs :
          /\ Records(id, Some(StrUser)) => FileHasRoom(id)
          /\ WriteToSession(id, data, Some(StrUser), FALSE, 0, FALSE, FALSE)
    \/ \E id \in TypingIds : StopSessionRecording(id, FALSE, FALSE)
    \/ \E decrypt \in DecryptInputs, keyEnv \in KeyEnvInputs,
          fresh \in KeyInputs : LoadRecording(StrR, decrypt, keyEnv, fresh)
    \/ now < MaxTicks * FlushMillis /\ Tick(FlushMillis)

SpecLoad == Init /\ [][NextLoad]_vars

(* ------------------------------------------------------------------ *)
(* SpecFlush: a recorded session that takes 20 KiB of input in one     *)
(* write, while time passes                                            *)
(* ------------------------------------------------------------------ *)

\* 20 KiB of "x" without a line terminator
StrTwentyKiB == [k \in 1..(20 * 1024) |-> 120]

FlushInputs == {StrTwentyKiB} \cup DataInputs

\* the recording of id has not buffered the 20 KiB yet
BufferBelow(id, str) ==
    Len(Unwrap(sessions[id].recording).input_buffer) < Len(str)

NextFlush ==
    \/ IdStr(next_id) \in TypingIds /\ Create(PlainRequest, "ok")
    \/ \E id \in TypingIds : CloseSession(id)
    \/ \E id \in TypingIds : Start(id, StrR, Some(FALSE), {"ok"})
    \/ \E id \in TypingIds, data \in FlushInputs :
          /\ Records(id, Some(StrUser)) =>
                 FileHasRoom(id) /\ BufferBelow(id, StrTwentyKiB)
          /\ WriteToSession(id, data, Some(StrUser), FALSE, 0, FALSE, FALSE)
    \/ \E id \in TypingIds : StopSessionRecording(id, FALSE, FALSE)
    \/ now < MaxTicks * FlushMillis /\ Tick(FlushMillis)

SpecFlush == Init /\ [][NextFlush]_vars

(* ------------------------------------------------------------------ *)
(* SpecBroken: sessions that record in cleartext under one recording   *)
(* id, and the loading of the log they share                           *)
(* ------------------------------------------------------------------ *)

NextBroken ==
    \/ next_id < MaxSharing /\ Create(PlainRequest, "ok")
    \/ \E id \in IdInputs(MaxSharing) : Start(id, StrR, Some(FALSE), {"ok"})
    \/ \E id \in IdInputs(MaxSharing), data \in DataInputs :
          /\ Records(id, Some(StrUser)) => FileHasRoom(id)
          /\ WriteToSession(id, data, Some(StrUser), FALSE, 0, FALSE, FALSE)
    \/ \E id \in IdInputs(MaxSharing) : StopSessionRecording(id, FALSE, FALSE)
    \/ \E decrypt \in DecryptInputs : LoadRecording(StrR, decrypt, "ok", 1)

SpecBroken == Init /\ [][NextBroken]_vars

(* ------------------------------------------------------------------ *)
(* SpecKeys: the first session recorded with and without encryption,   *)
(* the commands of the key manager, and a credential store that fails  *)
(* in every way it can                                                 *)
(* ------------------------------------------------------------------ *)

\* the keys OsRng can draw
FreshKeys == {1, 2}
\* what the credential store does when it is visited
StoreInputs == {"ok", "init_fail", "read_fail", "write_fail"}
\* a store is visited only by a call that finds the cache uninitialized
StoreVisits == IF key_cache.state = "Uninitialized" THEN StoreInputs ELSE {"ok"}
\* a key is drawn only by a call that visits an empty store
KeyDraws == IF key_cache.state = "Uninitialized" /\ keychain = None
            THEN FreshKeys ELSE {1}

NextKeys ==
    \/ IdStr(next_id) \in TypingIds /\ Create(PlainRequest, "ok")
    \/ \E id \in TypingIds, encrypt \in EncryptInputs,
          keyEnv \in StoreVisits, fresh \in KeyDraws :
          StartSessionRecording(id, StrR, encrypt, keyEnv, fresh, "ok", FALSE)
    \/ \E id \in TypingIds, data \in DataInputs, failAt \in {0, 1} :
          /\ Records(id, Some(StrUser)) => FileHasRoom(id)
          /\ WriteToSession(id, data, Some(StrUser), FALSE, failAt, FALSE,
                            FALSE)
    \/ \E id \in TypingIds : StopSessionRecording(id, FALSE, FALSE)
    \/ \E keyEnv \in StoreVisits, fresh \in KeyDraws :
          PrepareSecureStorage(keyEnv, fresh)
    \/ ResetSecureStorage
    \/ \E decrypt \in DecryptInputs, keyEnv \in StoreVisits,
          fresh \in KeyDraws : LoadRecording(StrR, decrypt, keyEnv, fresh)

SpecKeys == Init /\ [][NextKeys]_vars

(* ------------------------------------------------------------------ *)
(* SpecCipher: one string encrypted under a key and a context, and     *)
(* then decrypted as it is or with one bit flipped                     *)
(* ------------------------------------------------------------------ *)

\* the contexts (SecretContext)
Contexts == {"State", "Recording"}
\* the strings encrypted: the empty one, "a", U+00E9 and "hi"
Plaintexts == {<<>>, <<97>>, <<233>>, <<104, 105>>}
\* the nonces OsRng can draw
Nonces == {[k \in 1..NonceLen |-> 0], [k \in 1..NonceLen |-> (37 * k) % 256]}

\* value with bit b of its character i flipped
FlipBit(value, i, b) ==
    LET weight == 2 ^ b
    IN  [value EXCEPT ![i] = IF (@ \div weight) % 2 = 1 THEN @ - weight
                             ELSE @ + weight]

\* the strings that differ from value in one of the low seven bits of one
\* character (they are ASCII strings as value is)
Damaged(value) == {FlipBit(value, i, b) : i \in 1..Len(value), b \in 0..6}

NextCipher ==
    \/ \E key \in FreshKeys, context \in Contexts, plaintext \in Plaintexts,
          nonce \in Nonces :
          ret.op = "none" /\ EncryptString(key, context, plaintext, nonce)
    \/ \E key \in FreshKeys, context \in Contexts :
          /\ ret.op = "encrypt"
          /\ \E value \in {Unwrap(ret.value)} \cup Damaged(Unwrap(ret.value)) :
                DecryptString(key, context, value)

SpecCipher == Init /\ [][NextCipher]_vars

(* ------------------------------------------------------------------ *)
(* SpecKill: kill_persistent_session with every persist id, in every   *)
(* environment of the bundled zellij                                   *)
(* ------------------------------------------------------------------ *)

\* persist ids: none, blank, "p", " p ", "a b", "../x", U+00E9, and two
\* names of sessions: "other" and "agents-ui-p"
PersistIdInputs ==
    {<<>>, <<32>>, StrP, <<32>> \o StrP \o <<32>>, <<97, 32, 98>>,
     <<46, 46, 47, 120>>, <<233>>, <<111, 116, 104, 101, 114>>,
     AgentsUiZellijPrefix \o StrP}

ZellijEnvs ==
    [zellij : BOOLEAN, app_data : BOOLEAN, preferred : BOOLEAN,
     legacy_made : BOOLEAN, legacy_exists : BOOLEAN]

\* how the two commands end in one socket directory
ZellijRun(kill, kill_stderr, delete, delete_stderr) ==
    [kill |-> kill, kill_stderr |-> kill_stderr, delete |-> delete,
     delete_stderr |-> delete_stderr]

ZellijRuns ==
    {ZellijRun("run_fail", "", "fail", ""),
     ZellijRun("success", "", "fail", ""),
     ZellijRun("fail", "no session", "success", ""),
     ZellijRun("fail", "no session", "fail", "not found"),
     ZellijRun("fail", "no session", "run_fail", ""),
     ZellijRun("fail", "", "fail", "")}

NextKill ==
    \E persist_id \in PersistIdInputs, z \in ZellijEnvs,
       first \in ZellijRuns, second \in ZellijRuns :
        KillPersistentSession(persist_id, z,
                              [dir \in {"preferred", "legacy"} |->
                                  IF dir = "preferred" THEN first ELSE second])

SpecKill == Init /\ [][NextKill]_vars

(* ------------------------------------------------------------------ *)
(* SpecAttach: persistent sessions created in every environment,       *)
(* detached from, resized, closed and killed                           *)
(* ------------------------------------------------------------------ *)

\* how the listings of the two socket directories end
Listings == [{"preferred", "legacy"} -> {"err", "absent", "present"}]

NextAttach ==
    \/ \E z \in ZellijEnvs, listed \in Listings,
          outcome \in {"ok", "spawn_fail"} :
          /\ next_id < MaxReaders
          /\ CreatePersistentSession(StrP, z, listed, outcome)
    \/ \E z \in {e \in ZellijEnvs : e.zellij /\ e.app_data},
          run \in ZellijRuns :
          KillPersistentSession(StrP, z,
                                [dir \in {"preferred", "legacy"} |-> run])
    \/ \E id \in IdInputs(MaxReaders), writeFails \in BOOLEAN :
          DetachSession(id, writeFails)
    \/ \E id \in IdInputs(MaxReaders), size \in SizeInputs :
          ResizeSession(id, size[1], size[2], FALSE)
    \/ \E id \in IdInputs(MaxReaders) : CloseSession(id)
    \/ \E id \in IdInputs(MaxReaders) : ChildExit(id, 0)
    \/ \E id \in IdInputs(MaxReaders) : ReaderEnd(id, FALSE)
    \/ \E id \in IdInputs(MaxReaders) : ReaderRemove(id)
    \/ \E id \in IdInputs(MaxReaders) : ReaderWaitExit(id, FALSE, FALSE)

SpecAttach == Init /\ [][NextAttach]_vars

(* ------------------------------------------------------------------ *)
(* SpecChunks: the reader thread of the first session, whose PTY hands *)
(* it a byte stream cut into chunks in every way                       *)
(* ------------------------------------------------------------------ *)

\* the bytes of the stream: "A", the three bytes of U+20AC, and 0xFF, which
\* no UTF-8 sequence holds
StreamBytes == {65, 226, 130, 172, 255}

\* the bytes the reader of id has read
BytesRead(id) == Len(Concat(reader[id].reads))

\* the chunks of n bytes
ChunksOfLen(n) == [1..n -> StreamBytes]

NextChunks ==
    \/ IdStr(next_id) \in TypingIds /\ Create(PlainRequest, "ok")
    \/ \E id \in TypingIds \cap Spawned :
          \E n \in 1..(MaxStream - BytesRead(id)) :
              \E chunk \in ChunksOfLen(n) : ReaderRead(id, chunk)
    \/ \E id \in TypingIds : ReaderEnd(id, TRUE)

SpecChunks == Init /\ [][NextChunks]_vars

(* ------------------------------------------------------------------ *)
(* Claims                                                              *)
(* ------------------------------------------------------------------ *)

\* C1: in every reachable state the display names of the registered
\* sessions are pairwise distinct, whatever names create_session was asked
\* for and whichever sessions the readers have removed (SpecNames)
C1_NamesDistinct ==
    \A i, j \in Registered : i # j => sessions[i].name # sessions[j].name

\* C1 witness: "x" was created twice, the first "x" was reaped, and a request
\* for "x-2" met the suffixed name of the second: it was named "x-2-2"
C1_Witness ==
    /\ IdStr(0) \in Spawned \ Registered
    /\ IdStr(1) \in Registered /\ sessions[IdStr(1)].name = StrX2
    /\ IdStr(2) \in Registered
    /\ sessions[IdStr(2)].name = StrX2 \o <<ChDash, 50>>

\* C2: once close_session has set the closing flag of a session, no write,
\* resize or detach on that session delivers bytes to its PTY writer or
\* changes its window size, and the flag stays set while the session is
\* registered (Spec)
C2_ClosingSilencesSession ==
    [][\A id \in Registered :
          sessions[id].closing =>
              /\ id \in DOMAIN sessions' => sessions'[id].closing
              /\ ret'.op \in {"write", "resize", "detach"} /\ ret'.id = id
                    => ret'.delivered = <<>> /\ ret'.resized = None]_vars

\* C3: close_session always returns success; on a registered session that
\* is not closing it sets closing and asks the child to terminate, once;
\* any other call (the session is closing already, the id is unknown or
\* reaped) changes neither the registry nor a child; so no child is asked
\* to terminate more than once (Spec)
C3_CloseIdempotent ==
    [][/\ ret'.op = "close" =>
              /\ ret'.err = ""
              /\ IF ret'.id \in Registered /\ ~sessions[ret'.id].closing
                 THEN /\ sessions' = [sessions EXCEPT ![ret'.id].closing = TRUE]
                      /\ child' = [child EXCEPT ![ret'.id].kills = @ + 1]
                 ELSE UNCHANGED <<sessions, child>>
       /\ \A id \in DOMAIN child' : child'[id].kills <= 1]_vars

\* C3 witness: close_session has just returned for a session that was
\* closed before and has been reaped since; its child was asked to
\* terminate once
C3_Witness ==
    /\ ret.op = "close"
    /\ ret.id \in Spawned \ Registered
    /\ child[ret.id].kills = 1

\* C4: a session leaves the registry only in the step in which its own
\* reader, having left its read loop on end-of-stream or a read error,
\* removes it; that happens once (a session is registered exactly as long
\* as its reader has not passed that step, and an id is not registered
\* again); close_session, write_to_session, resize_session and the
\* recording commands leave the set of registered sessions as it is, so a
\* closed session stays listed until its reader reaps it (SpecRec)
C4_RemovedOnceByReader ==
    [][/\ \A id \in Registered \ DOMAIN sessions' :
              /\ ret' = NoCommand
              /\ reader[id].pc = "remove" /\ reader'[id].pc = "wait"
              /\ Registered \ DOMAIN sessions' = {id}
       /\ \A id \in Spawned \ Registered : id \notin DOMAIN sessions'
       /\ \A id \in DOMAIN child' :
              id \in DOMAIN sessions' <=> reader'[id].pc \in {"read", "remove"}
       /\ ret'.op \in {"close", "write", "resize", "start", "stop"}
              => DOMAIN sessions' = DOMAIN sessions]_vars

\* C4 witness: a closed session that was recording has been taken out of
\* the registry by its reader, which now waits for the child
C4_Witness ==
    \E id \in Spawned \ Registered :
        /\ reader[id].pc = "wait"
        /\ IsSome(reader[id].held)
        /\ Unwrap(reader[id].held).closing
        /\ IsSome(Unwrap(reader[id].held).recording)

\* C6: a user write whose recording fails (write_to_session reports it on
\* stderr) still hands its bytes to the PTY writer and returns success, and
\* leaves the session without a recording; a write to a session without a
\* recording touches no log file, and start_session_recording answers
\* 'already recording' only for a session that has a recording (SpecRec)
C6_RecordingFailureKeepsWrite ==
    [][/\ ret'.op = "write" /\ ret'.logged # "" =>
              /\ ret'.err = ""
              /\ ret'.delivered \in {Utf8Encode(data) : data \in DataInputs}
              /\ ret'.delivered # <<>>
              /\ sessions'[ret'.id].recording = None
       /\ ( /\ ret'.op = "write"
            /\ ret'.id \in Registered
            /\ sessions[ret'.id].recording = None ) => files' = files
       /\ ret'.op = "start" /\ ret'.err = "already recording" =>
              IsSome(sessions[ret'.id].recording)]_vars

\* C6 witness: a user write has just returned success with its bytes
\* delivered after its recording failed, and the session has no recording
C6_Witness ==
    /\ ret.op = "write"
    /\ ret.logged = StrRecordingFailed
    /\ ret.err = ""
    /\ ret.delivered # <<>>
    /\ ret.id \in Registered
    /\ sessions[ret.id].recording = None

\* the text of the output events of a log, in the order of the log
OutputText(log) ==
    Concat([k \in 1..Len(log) |->
               IF log[k].event = "pty-output" THEN log[k].data ELSE <<>>])

\* C5: for every session the text of the output events its reader has
\* emitted is, in order, the decoding of the bytes it has read (with what
\* is left of an unfinished character once the loop has ended); the session
\* is registered exactly until the reader has left its loop and removed it;
\* an exit event is emitted once, after the removal and as the last event,
\* and carries the child's exit code, or none if waiting for the child
\* failed (SpecReader)
C5_ReaderEvents ==
    \A id \in Spawned :
        LET log == emitted[id]
            n == Len(log)
            d == decode_utf8_stream(<<>>, Concat(reader[id].reads))
        IN  /\ OutputText(log) =
                   IF reader[id].pc = "read" THEN d.out
                   ELSE d.out \o FromUtf8Lossy(d.carry)
            /\ \A k \in 1..n : log[k].event = "pty-output" => log[k].data # <<>>
            /\ {k \in 1..n : log[k].event = "pty-exit"} =
                   IF reader[id].pc = "done" THEN {n} ELSE {}
            /\ id \in Registered <=> reader[id].pc \in {"read", "remove"}
            /\ reader[id].pc = "done" =>
                   log[n] = ExitEvent(IF child[id].waited = "ok"
                                      THEN Some(child[id].code) ELSE None)

\* C5 witness: a reader read "a" and the first byte of a two-byte
\* character, emitted "a", then U+FFFD for the unfinished character when the
\* stream ended, removed its session and emitted the exit event with the
\* child's exit code 1
C5_Witness ==
    \E id \in Spawned \ Registered :
        /\ reader[id].pc = "done"
        /\ reader[id].reads = <<<<97>>, <<195>>>>
        /\ emitted[id] = <<OutputEvent(<<97>>), OutputEvent(<<ChReplacement>>),
                           ExitEvent(Some(1))>>

\* C8: a create_session that fails, at whichever step (validation of a
\* persistent request, PTY allocation, spawn of the child, clone of the
\* reader, take of the writer), leaves the registry holding exactly the
\* sessions it held and starts no reader thread (Spec)
C8_FailedCreateRegistersNothing ==
    [][ret'.op = "create" /\ ret'.err # "" =>
           /\ sessions' = sessions
           /\ reader' = reader]_vars

\* C8 witness: a create_session has just failed after it had drawn the id
\* "1": the registry and the readers are those of session "0" alone
C8_Witness ==
    /\ ret.op = "create"
    /\ ret.err \in {"spawn failed", "clone reader failed", "take writer failed"}
    /\ next_id = 2
    /\ Registered = {IdStr(0)}
    /\ DOMAIN reader = {IdStr(0)}

\* C7: for an id the registry does not hold, write_to_session,
\* resize_session, start_session_recording and stop_session_recording
\* return the unknown-session error and close_session returns success, and
\* all five leave the registry as it is (SpecKeyed)
C7_UnknownSession ==
    [][ret'.op \in {"write", "resize", "start", "stop", "close"}
       /\ ret'.id \notin Registered =>
           /\ ret'.err = IF ret'.op = "close" THEN "" ELSE "unknown session"
           /\ sessions' = sessions]_vars

\* C9: start_session_recording on a session that has a recording fails
\* with 'already recording' and leaves the recording with its buffered
\* input and the log files as they are; a session never has more than the
\* one recording its field holds (SpecKeyed)
C9_OneRecording ==
    [][ret'.op = "start" /\ ret'.id \in Registered
       /\ IsSome(sessions[ret'.id].recording) =>
           /\ ret'.err = "already recording"
           /\ sessions' = sessions
           /\ files' = files]_vars

\* C10: every recording log file that is not empty is one Meta line
\* followed by Input lines only (SpecShared)
C10_LogIsMetaThenInputs ==
    \A path \in DOMAIN files :
        files[path] # <<>> =>
            LET lines == FileLines(files[path])
            IN  /\ IsWholeLine(lines[1])
                /\ lines[1][1].line.type = "meta"
                /\ \A k \in 2..Len(lines) :
                       /\ IsWholeLine(lines[k])
                       /\ lines[k][1].line.type = "input"

\* C11: a recording log is append-only: no step of the engine (a write, a
\* stop, a later start_session_recording under any recording id, the
\* reaping of a session) removes or overwrites a byte a log file holds:
\* every log file stays, and what it held stays at the head of what it
\* holds (SpecLoad)
C11_AppendOnly ==
    [][\A path \in DOMAIN files :
          /\ path \in DOMAIN files'
          /\ Len(files'[path]) >= Len(files[path])
          /\ SubSeq(files'[path], 1, Len(files[path])) = files[path]]_vars

\* the lines a step has added to the log of the recording of id: what the
\* file holds between the writer's offset before and after the step
EmittedLines(id) ==
    LET rec == Unwrap(sessions[id].recording)
        after == Unwrap(sessions'[id].recording)
    IN  FileLines(SubSeq(files'[rec.id], rec.pos + 1, after.pos))

\* the characters of a string
Chars(str) == {str[k] : k \in 1..Len(str)}

\* C12: what one key does to the unfinished line: a printable character is
\* appended, delete and backspace remove the last character if there is
\* one, Ctrl+U clears the line, tab and every other control character
\* leave it as it is
C12_Key(line, ch) ==
    IF ch \in {ChDEL, ChBS}
    THEN (IF line = <<>> THEN <<>> ELSE SubSeq(line, 1, Len(line) - 1))
    ELSE IF ch = ChNAK THEN <<>>
    ELSE IF ch \in 0..31 \/ ch \in 127..159 THEN line
    ELSE Append(line, ch)

\* C12: the payloads typing data onto line yields, one at each terminator
\* (a line feed right after a return belongs to the return), and the
\* unfinished line that is left
RECURSIVE C12_Typed(_, _, _, _)
C12_Typed(line, data, i, payloads) ==
    IF i > Len(data) THEN [payloads |-> payloads, line |-> line]
    ELSE IF data[i] = ChCR
    THEN C12_Typed(<<>>, data,
                   IF i < Len(data) /\ data[i + 1] = ChLF THEN i + 2 ELSE i + 1,
                   Append(payloads, Append(line, ChCR)))
    ELSE IF data[i] = ChLF
    THEN C12_Typed(<<>>, data, i + 1, Append(payloads, Append(line, ChLF)))
    ELSE C12_Typed(C12_Key(line, data[i]), data, i + 1, payloads)

\* C12: line reconstruction: a user write without escape sequences to a
\* recording session adds to the log exactly one Input line at each line
\* terminator, its payload the keys typed since the previous terminator
\* replayed on an empty line and followed by the terminator, and leaves as
\* the buffer the replay of the keys typed since the last terminator (the
\* empty buffer right after a terminator); the buffer of a new recording
\* is empty (SpecInput)
C12_LineReconstruction ==
    [][/\ \A id \in TypingIds, data \in InputStrings :
              ( /\ ChESC \notin Chars(data)
                /\ Records(id, Some(StrUser))
                /\ WriteToSession(id, data, Some(StrUser), FALSE, 0, FALSE,
                                  FALSE) )
              => /\ IsSome(sessions'[id].recording)
                 /\ LET typed == C12_Typed(
                            Unwrap(sessions[id].recording).input_buffer,
                            data, 1, <<>>)
                        lines == EmittedLines(id)
                    IN  /\ Len(lines) = Len(typed.payloads)
                        /\ \A k \in 1..Len(lines) :
                               /\ IsWholeLine(lines[k])
                               /\ lines[k][1].line.type = "input"
                               /\ lines[k][1].line.data =
                                      [NoPayload EXCEPT
                                           !.text = typed.payloads[k]]
                        /\ Unwrap(sessions'[id].recording).input_buffer =
                               typed.line
       /\ \A id \in TypingIds :
              ret'.op = "start" /\ ret'.err = "" /\ ret'.id = id
              => Unwrap(sessions'[id].recording).input_buffer = <<>>]_vars

\* C12 witness: the write of a, b, delete, c, return to a new recording has
\* just returned, the log holds the Meta line and one Input line with the
\* payload "ac" and the return, and the buffer is empty
C12_Witness ==
    \E id \in Registered :
        /\ ret.op = "write" /\ ret.id = id
        /\ ret.delivered = Utf8Encode(StrAbDelCCr)
        /\ IsSome(sessions[id].recording)
        /\ LET rec == Unwrap(sessions[id].recording)
               lines == FileLines(files[rec.id])
           IN  /\ rec.input_buffer = <<>>
               /\ Len(lines) = 2
               /\ lines[2][1].line.data.text = <<97, 99, ChCR>>

\* C13 as claimed: a user write to a recording session adds at most one
\* Input line to the log, whatever it writes (SpecInput)
C13_AtMostOneLine ==
    [][\A id \in TypingIds, data \in InputStrings :
          ( /\ Records(id, Some(StrUser))
            /\ WriteToSession(id, data, Some(StrUser), FALSE, 0, FALSE, FALSE)
            /\ IsSome(sessions'[id].recording) )
          => Len(EmittedLines(id)) <= 1]_vars

\* how many returns and line feeds a string holds, and how many of its line
\* feeds stand right after a return
Terminators(data) ==
    Cardinality({k \in 1..Len(data) : data[k] \in {ChCR, ChLF}})
LineFeedsOfReturns(data) ==
    Cardinality({k \in 2..Len(data) : data[k] = ChLF /\ data[k - 1] = ChCR})

\* C13 as amended: a user write to a recording session adds to the log at
\* most one Input line for each return and line feed it writes, so none if
\* it writes neither; if it writes no escape sequence and the recording
\* does not fail, it adds one line for each return (with the line feed
\* that follows it) and one for each other line feed, so two or more for a
\* write of several lines (SpecInput)
C13_OneLinePerTerminator ==
    [][\A id \in TypingIds, data \in InputStrings :
          ( /\ Records(id, Some(StrUser))
            /\ WriteToSession(id, data, Some(StrUser), FALSE, 0, FALSE, FALSE)
            /\ IsSome(sessions'[id].recording) )
          => LET lines == EmittedLines(id)
             IN  /\ Len(lines) <= Terminators(data)
                 /\ \A k \in 1..Len(lines) :
                        IsWholeLine(lines[k]) /\ lines[k][1].line.type = "input"
                 /\ ChESC \notin Chars(data) =>
                        Len(lines) = Terminators(data)
                                         - LineFeedsOfReturns(data)]_vars

\* C13 witness: the one write of "a", return, "b", line feed has just added
\* two Input lines to the log of a new recording
C13_Witness ==
    \E id \in Registered :
        /\ ret.op = "write" /\ ret.id = id
        /\ ret.delivered = Utf8Encode(StrTwoLines)
        /\ IsSome(sessions[id].recording)
        /\ LET lines == FileLines(files[Unwrap(sessions[id].recording).id])
           IN  /\ Len(lines) = 3
               /\ lines[2][1].line.data.text = <<97, ChCR>>
               /\ lines[3][1].line.data.text = <<98, ChLF>>

\* C14: flush by size: a user write of 20 KiB of input without a line
\* terminator to a recording session leaves the session registered and
\* recording, and has put recorded data into the log file: the file is
\* longer after the write than it was (SpecFlush)
C14_FlushBySize ==
    [][\A id \in TypingIds :
          ( /\ Records(id, Some(StrUser))
            /\ WriteToSession(id, StrTwentyKiB, Some(StrUser), FALSE, 0,
                              FALSE, FALSE) )
          => /\ id \in DOMAIN sessions'
             /\ IsSome(sessions'[id].recording)
             /\ LET path == Unwrap(sessions[id].recording).id
                IN  Len(files'[path]) > Len(files[path])]_vars

\* C15: only user writes reach the recording: a write from another source
\* or from none, a write of any source to a closing session, and a read of
\* the child's output by the reader thread leave the recording of the
\* session (its input buffer, its flush counters, its writer) and every
\* log file as they are (SpecSources, where the data of a write tells
\* its source)
C15_OnlyUserWritesRecorded ==
    [][\A id \in TypingIds \cap Registered :
          LET untouched == /\ id \in DOMAIN sessions'
                           /\ sessions'[id].recording = sessions[id].recording
                           /\ files' = files
          IN  /\ ( /\ ret'.op = "write" /\ ret'.id = id
                   /\ \E data \in OtherData :
                          ret'.delivered = Utf8Encode(data) ) => untouched
              /\ ( /\ ret'.op = "write" /\ ret'.id = id
                   /\ sessions[id].closing ) =>
                     untouched /\ ret'.delivered = <<>>
              /\ reader'[id].reads # reader[id].reads => untouched]_vars

\* C15 witness: the recording holds an "a" the user typed, the reader has
\* read the child's "c", and a write of "b" and a return from another
\* source has just been delivered: the log holds the Meta line alone
C15_Witness ==
    \E id \in Registered :
        /\ ret.op = "write" /\ ret.id = id
        /\ ret.delivered = <<98, ChCR>>
        /\ reader[id].reads # <<>>
        /\ IsSome(sessions[id].recording)
        /\ LET rec == Unwrap(sessions[id].recording)
           IN  /\ rec.input_buffer = <<97>>
               /\ Len(FileLines(files[rec.id])) = 1

\* what load_recording returns for the log path of the files fs when the
\* credential store cannot be read
LoadedFrom(fs, path) ==
    load_recording(fs, path, None, key_cache, keychain, "read_fail", 0)

\* C16: cleartext round trip.  A log that a start_session_recording
\* without encryption has just begun loads as its Meta record (encrypted
\* is false) and no events; every line the user then writes adds to what
\* loads exactly one event, last, with the written line as its payload and
\* the time since the start, which is not negative, as its timestamp;
\* stop_session_recording leaves what loads as it is; and load_recording
\* of such a log succeeds, whether decryption is allowed or not, without a
\* visit to the credential store, every timestamp not negative (SpecLoad)
C16_CleartextRoundTrip ==
    [][/\ \A id \in TypingIds \cap Registered :
              /\ ( ret'.op = "start" /\ ret'.err = "" /\ ret'.id = id ) =>
                     LET l == LoadedFrom(files',
                                         Unwrap(sessions'[id].recording).id)
                     IN  /\ l.err = ""
                         /\ l.meta = Some(MetaLine(now, FALSE))
                         /\ l.events = <<>>
              /\ \A data \in LineInputs :
                     ( /\ Records(id, Some(StrUser))
                       /\ WriteToSession(id, data, Some(StrUser), FALSE, 0,
                                         FALSE, FALSE) ) =>
                         LET rec == Unwrap(sessions[id].recording)
                             old == LoadedFrom(files, rec.id)
                             new == LoadedFrom(files', rec.id)
                         IN  /\ new.err = ""
                             /\ new.meta = old.meta
                             /\ now - rec.started_at >= 0
                             /\ new.events =
                                    Append(old.events,
                                           LoadedEvent(now - rec.started_at,
                                                       data))
              /\ ( /\ ret'.op = "stop" /\ ret'.err = "" /\ ret'.id = id
                   /\ IsSome(sessions[id].recording) ) =>
                     LET path == Unwrap(sessions[id].recording).id
                     IN  LoadedFrom(files', path) = LoadedFrom(files, path)
       /\ ( ret'.op = "load" /\ ret'.id \in DOMAIN files ) =>
              LET l == LoadedFrom(files, ret'.id)
              IN  /\ ret'.err = ""
                  /\ ret'.keychain_calls = 0
                  /\ ret'.loaded = Some([meta |-> l.meta, events |-> l.events])
                  /\ \A k \in 1..Len(l.events) : l.events[k].t >= 0]_vars

\* C16 witness: "echo hi" with its line feed was written to a recording
\* without encryption, the recording was stopped, and load_recording has
\* just returned one event with that payload and a timestamp that is not
\* negative
C16_Witness ==
    /\ ret.op = "load" /\ ret.err = ""
    /\ \A id \in Registered : sessions[id].recording = None
    /\ Registered # {}
    /\ LET events == Unwrap(ret.loaded).events
       IN  /\ Len(events) = 1
           /\ events[1].data = StrEchoHi
           /\ events[1].t >= 0

\* the Input records among the cells c
InputRecords(c) == {c[k].line : k \in {j \in 1..Len(c) : c[j].line.type = "input"}}

\* the bytes of the log of the recording rec, those in its writer included
LogOf(rec) == files[rec.id] \o rec.buf

\* C18: an encrypted recording writes ciphertext only.  A successful
\* start_session_recording leaves a log that holds one line, the Meta
\* record whose encrypted flag is the flag it was called with, true when
\* the flag was omitted; and while a session records into a log whose Meta
\* record says encrypted, every event payload in the log and in the
\* recording's writer is a ciphertext string made with the master key for
\* the Recording context, none is cleartext (SpecKeys, where a log has one
\* writer)
C18_EncryptedPayloads ==
    [][\A id \in TypingIds :
           /\ \A encrypt \in EncryptInputs, keyEnv \in StoreInputs,
                 fresh \in FreshKeys :
                  ( /\ StartSessionRecording(id, StrR, encrypt, keyEnv, fresh,
                                             "ok", FALSE)
                    /\ ret'.err = "" ) =>
                      /\ IsSome(sessions'[id].recording)
                      /\ FileLines(files'[StrR]) =
                             <<<<Cell(MetaLine(now, encrypt # Some(FALSE)), 1)>>>>
           /\ ( id \in DOMAIN sessions' /\ IsSome(sessions'[id].recording) ) =>
                  LET rec == Unwrap(sessions'[id].recording)
                      log == files'[rec.id] \o rec.buf
                  IN  log[1].line.encrypted =>
                          \A ev \in InputRecords(log) :
                              /\ ev.data.enc
                              /\ ev.data.ctx = "Recording"
                              /\ ev.data.key = keychain'
                              /\ IsSome(keychain')]_vars

\* C18 witness: a recording started with encryption enabled has just taken
\* a line from the user, and its log holds the Meta record that says
\* encrypted and one event, a ciphertext string
C18_Witness ==
    /\ ret.op = "write" /\ ret.err = ""
    /\ ret.id \in Registered
    /\ IsSome(sessions[ret.id].recording)
    /\ LET log == LogOf(Unwrap(sessions[ret.id].recording))
       IN  /\ log[1].line.encrypted
           /\ \E ev \in InputRecords(log) : ev.data.enc /\ ev.data.text # <<>>

\* the commands that call get_or_create_master_key
KeyCommands == {"start", "prepare", "load"}

\* C19: the master key is memoized.  The cache leaves Uninitialized only
\* for Ready or Error, in the one step that visits the credential store,
\* and leaves Ready or Error only by reset_secure_storage, for
\* Uninitialized; a command visits the store at most once, and only when
\* it finds the cache Uninitialized, so between two resets at most one
\* call visits it (the calls hold the mutex of the cache and are steps of
\* their own); every other call leaves the store alone and returns what
\* is memoized: prepare_secure_storage the memoized error or Ok, a
\* start_session_recording with encryption the memoized error or a
\* recording under the memoized key (SpecKeys)
C19_Memoized ==
    [][/\ key_cache' # key_cache =>
              \/ /\ key_cache.state = "Uninitialized"
                 /\ key_cache'.state \in {"Ready", "Error"}
                 /\ ret'.op \in KeyCommands /\ ret'.keychain_calls = 1
              \/ /\ key_cache.state \in {"Ready", "Error"}
                 /\ key_cache'.state = "Uninitialized"
                 /\ ret'.op = "reset"
       /\ ret'.keychain_calls \in {0, 1}
       /\ ret'.keychain_calls = 1 =>
              /\ key_cache.state = "Uninitialized"
              /\ key_cache'.state \in {"Ready", "Error"}
              /\ key_cache'.state = "Error" =>
                     ret'.err # "" /\ key_cache'.err = ret'.err
       /\ ret'.keychain_calls = 0 => keychain' = keychain
       /\ \A keyEnv \in StoreInputs, fresh \in FreshKeys :
              /\ ( /\ key_cache.state # "Uninitialized"
                   /\ PrepareSecureStorage(keyEnv, fresh) ) =>
                      /\ ret'.keychain_calls = 0
                      /\ ret'.err = key_cache.err
              /\ \A id \in TypingIds :
                     ( /\ key_cache.state # "Uninitialized"
                       /\ StartSessionRecording(id, StrR, None, keyEnv, fresh,
                                                "ok", FALSE) ) =>
                         /\ ret'.keychain_calls = 0
                         /\ key_cache.state = "Error" =>
                                ret'.err = key_cache.err
                         /\ ( key_cache.state = "Ready" /\ ret'.err = "" ) =>
                                Unwrap(sessions'[id].recording).enc_key =
                                    Some(key_cache.key)]_vars

\* C19 witness: the one visit to the credential store failed and the
\* error was memoized, and a prepare_secure_storage has just returned that
\* error without a visit of its own
C19_Witness ==
    /\ ret.op = "prepare" /\ ret.err # ""
    /\ ret.keychain_calls = 0
    /\ key_cache.state = "Error" /\ key_cache.err = ret.err

\* C20: the master key is generated once and fetched afterwards.  The
\* credential store changes only from empty to a key, in a step that
\* visits it; a key that the cache holds is the key in the store; a
\* start_session_recording with encryption that succeeds records under the
\* key in the store, and so does every recording that is attached,
\* whatever resets and failures lie between (SpecKeys)
C20_GeneratedOnce ==
    [][/\ keychain' # keychain =>
              /\ keychain = None /\ IsSome(keychain')
              /\ ret'.keychain_calls = 1
       /\ key_cache'.state = "Ready" => keychain' = Some(key_cache'.key)
       /\ \A id \in TypingIds :
              /\ ( /\ ret'.op = "start" /\ ret'.err = "" /\ ret'.id = id
                   /\ files'[StrR][1].line.encrypted ) =>
                     Unwrap(sessions'[id].recording).enc_key = keychain'
              /\ ( /\ id \in DOMAIN sessions'
                   /\ IsSome(sessions'[id].recording)
                   /\ IsSome(Unwrap(sessions'[id].recording).enc_key) ) =>
                     Unwrap(sessions'[id].recording).enc_key = keychain'
       /\ ( ret'.op = "load" /\ ret'.err = "" /\ ret'.keychain_calls = 1 ) =>
              keychain' = keychain]_vars

\* C20 witness: a key was generated for an encrypted recording, the cache
\* was reset, and load_recording has just visited the store, fetched that
\* key and decrypted an event with it
C20_Witness ==
    /\ ret.op = "load" /\ ret.err = ""
    /\ ret.keychain_calls = 1
    /\ Unwrap(ret.loaded).events # <<>>
    /\ Unwrap(ret.loaded).meta # None
    /\ Unwrap(Unwrap(ret.loaded).meta).encrypted
    /\ key_cache.state = "Ready" /\ keychain = Some(key_cache.key)

\* C21: encryption round trip.  What encrypt_string_with_key returns for a
\* key, a context and a string decrypts under that key and that context to
\* the string, and under that key and the other context to the error of a
\* failed authentication (SpecCipher)
C21_RoundTrip ==
    [][\A key \in FreshKeys, context \in Contexts, plaintext \in Plaintexts,
          nonce \in Nonces :
           ( ret'.op = "encrypt"
             /\ EncryptString(key, context, plaintext, nonce) ) =>
               LET value == StringPayload(Unwrap(ret'.value))
               IN  /\ decrypt_string_with_key(key, context, value) =
                          [ok |-> TRUE, text |-> plaintext, err |-> ""]
                   /\ \A other \in Contexts \ {context} :
                          decrypt_string_with_key(key, other, value) =
                              [ok |-> FALSE, text |-> <<>>,
                               err |-> "decrypt failed"]]_vars

\* C21 witness: the ciphertext of U+00E9 has just been decrypted to it
C21_Witness ==
    /\ ret.op = "decrypt" /\ ret.err = ""
    /\ ret.value = Some(<<233>>)

\* C22: a damaged ciphertext never decrypts.  Whatever
\* encrypt_string_with_key returned, with one bit of it flipped,
\* decrypt_string_with_key returns an error for, under every key and
\* context (SpecCipher)
C22_DamageDetected ==
    [][( /\ ret.op = "encrypt"
         /\ \E key \in FreshKeys, context \in Contexts,
               value \in Damaged(Unwrap(ret.value)) :
               DecryptString(key, context, value) ) =>
           ret'.err # ""]_vars

\* C23: re-assembly does not depend on the chunking.  While a reader is in
\* its loop, the text it has emitted and the carry it holds are the
\* String and the carry that decode_utf8_stream returns for all the bytes
\* it has read given as one chunk to an empty carry, however the PTY cut
\* them into reads (SpecChunks)
C23_ChunkingIndependent ==
    \A id \in Spawned :
        reader[id].pc = "read" =>
            LET whole == decode_utf8_stream(<<>>, Concat(reader[id].reads))
            IN  /\ OutputText(emitted[id]) = whole.out
                /\ reader[id].carry = whole.carry

\* C23 witness: the reader got 0xFF and then the three bytes of U+20AC in
\* three reads; it has emitted U+FFFD for the first and, once, the
\* character the last three are
C23_Witness ==
    \E id \in Spawned :
        /\ reader[id].pc = "read"
        /\ reader[id].reads = <<<<255, 226>>, <<130>>, <<172>>>>
        /\ emitted[id] = <<OutputEvent(<<ChReplacement>>),
                           OutputEvent(<<8364>>)>>
        /\ reader[id].carry = <<>>

\* a session name of the managed kind: the prefix and then one or more of
\* the ASCII letters and digits, '-' and '_'
IsManagedName(name) ==
    /\ Len(name) > Len(AgentsUiZellijPrefix)
    /\ SubSeq(name, 1, Len(AgentsUiZellijPrefix)) =
           <<97, 103, 101, 110, 116, 115, 45, 117, 105, 45>>
    /\ \A k \in (Len(AgentsUiZellijPrefix) + 1)..Len(name) :
           \/ name[k] \in 48..57 \/ name[k] \in 65..90 \/ name[k] \in 97..122
           \/ name[k] \in {45, 95}

\* C24: kill_persistent_session destroys managed sessions only.  Every
\* kill-session and delete-session it runs the bundled zellij with names a
\* session of the managed kind, whatever persist id it was called with
\* (SpecKill)
C24_KillsManagedOnly ==
    \A k \in 1..Len(ret.invoked) :
        ret.invoked[k].verb \in {"kill-session", "delete-session"} =>
            IsManagedName(ret.invoked[k].session_name)

\* C24 witness: kill_persistent_session was called with "../x" and has run
\* kill-session and delete-session in both socket directories, each time
\* for agents-ui-___x
C24_Witness ==
    /\ ret.op = "kill" /\ ret.id = <<46, 46, 47, 120>>
    /\ Len(ret.invoked) = 4
    /\ \A k \in 1..4 :
           ret.invoked[k].session_name =
               <<97, 103, 101, 110, 116, 115, 45, 117, 105, 45, 95, 95, 95, 120>>
    /\ {ret.invoked[k].socket_dir : k \in 1..4} = {"preferred", "legacy"}

\* C25: a name without the managed prefix is refused.  A
\* kill_persistent_session that is given a string which does not start with
\* the managed prefix returns an error and does not run the bundled zellij
\* (SpecKill)
C25_RefusesUnmanaged ==
    [][( /\ ret'.op = "kill"
         /\ ~StartsWith(Trim(ret'.id), AgentsUiZellijPrefix) ) =>
           ret'.err # "" /\ ret'.invoked = <<>>]_vars

\* C26: reaping is live.  Once the reader of a session has left its loop,
\* on end of stream or on a read error, the session is in the end out of
\* the registry and its exit event emitted; and a close_session takes no
\* session out of the registry (SpecReaping)
C26_Reaped ==
    /\ \A id \in ReaderIds :
           (id \in Spawned /\ reader[id].pc # "read")
               ~> ( /\ id \in Spawned
                    /\ id \notin Registered
                    /\ \E k \in 1..Len(emitted[id]) :
                           emitted[id][k].event = "pty-exit" )
    /\ [][ret'.op = "close" => DOMAIN sessions' = DOMAIN sessions]_vars

\* C27: recording files are never shared: no two sessions of the registry
\* have active recordings whose writers are open on the same log file
\* (SpecShared)
C27_FilesNotShared ==
    \A a \in Registered, b \in Registered :
        /\ a # b
        /\ IsSome(sessions[a].recording)
        /\ IsSome(sessions[b].recording)
        => Unwrap(sessions[a].recording).id # Unwrap(sessions[b].recording).id

\* where a reader of escape sequences stands after the character ch:
\* outside any sequence ("ground"), behind an ESC, in a CSI sequence (ends
\* at the first character in '@'..'~'), in an OSC sequence (ends at BEL or
\* at ESC backslash), or in a sequence opened by P, ^ or _ (ends at ESC
\* backslash); any other character behind an ESC ends the escape
EscapeStep(mode, ch) ==
    IF mode = "ground" THEN (IF ch = ChESC THEN "esc" ELSE "ground")
    ELSE IF mode = "esc"
    THEN (IF ch = 91 THEN "csi" ELSE IF ch = 93 THEN "osc"
          ELSE IF ch \in {80, 94, 95} THEN "st" ELSE "ground")
    ELSE IF mode = "csi" THEN (IF ch \in 64..126 THEN "ground" ELSE "csi")
    ELSE IF mode \in {"osc", "osc_esc"}
    THEN (IF ch = ChBEL THEN "ground"
          ELSE IF mode = "osc_esc" /\ ch = ChBackslash THEN "ground"
          ELSE IF ch = ChESC THEN "osc_esc" ELSE "osc")
    ELSE (IF mode = "st_esc" /\ ch = ChBackslash THEN "ground"
          ELSE IF ch = ChESC THEN "st_esc" ELSE "st")

\* where the reader stands after data, having begun it in mode
RECURSIVE EscapeMode(_, _, _)
EscapeMode(data, i, mode) ==
    IF i > Len(data) THEN mode
    ELSE EscapeMode(data, i + 1, EscapeStep(mode, data[i]))

\* data with every character of an escape sequence replaced by a tab, which
\* record_user_input passes over; the reader begins data in mode
RECURSIVE WithoutEscapes(_, _, _)
WithoutEscapes(data, i, mode) ==
    IF i > Len(data) THEN <<>>
    ELSE <<IF mode = "ground" /\ data[i] # ChESC THEN data[i] ELSE ChTAB>>
             \o WithoutEscapes(data, i + 1, EscapeStep(mode, data[i]))

\* the step is a write of the user's that a recording takes down
IsRecordedWrite ==
    /\ ret'.op = "write"
    /\ ret'.err = ""
    /\ ret'.id \in Registered
    /\ Records(ret'.id, Some(StrUser))

\* the step does to the recording and to the files what the write of data
\* does
RecordsAs(data) ==
    LET r == RecordWrite(sessions[ret'.id], data, files, 0, FALSE, FALSE)
    IN  /\ sessions' = [sessions EXCEPT ![ret'.id] = r.session]
        /\ files' = r.fs

\* where the write before this step left the reader of escape sequences:
\* in the ground mode unless the step before was a recorded write too
ModeLeft ==
    IF ret.op = "write" /\ ret.err = "" /\ ret.id = ret'.id
    THEN EscapeMode(FromUtf8Lossy(ret.delivered), 1, "ground")
    ELSE "ground"

\* C28 as stated: escape sequences never reach the reconstructed line,
\* also when a sequence is delivered in two consecutive writes: a recorded
\* write does what the write of its data outside the escape sequences does,
\* a sequence that the write before left open being one that goes on in
\* this write (SpecEscapes)
C28_EscapesSkipped ==
    [][IsRecordedWrite =>
          LET data == FromUtf8Lossy(ret'.delivered)
          IN  RecordsAs(WithoutEscapes(data, 1, ModeLeft))]_vars

\* C28 as it holds: within one write no character of an escape sequence
\* reaches the input buffer and the scan goes on with the character right
\* after the sequence; a sequence that the write does not end is skipped up
\* to the end of the write, and the next write is scanned from its first
\* character on as ordinary input (SpecEscapes)
C28_EscapesSkippedInWrite ==
    [][IsRecordedWrite =>
          LET data == FromUtf8Lossy(ret'.delivered)
          IN  RecordsAs(WithoutEscapes(data, 1, "ground"))]_vars

\* a CSI sequence with an "a" behind it was written in one piece and the
\* unfinished line is that "a"
C28_Witness ==
    /\ ret.op = "write"
    /\ ret.delivered = <<ChESC, 91, 49, 65, 97>>
    /\ IdStr(0) \in Registered
    /\ IsSome(sessions[IdStr(0)].recording)
    /\ Unwrap(sessions[IdStr(0)].recording).input_buffer = <<97>>

\* the socket directory of the attach the step ran
AttachedIn == ret'.invoked[Len(ret'.invoked)].socket_dir

\* the step is a create_session that started a persistent session in the
\* environment z, the listings ending as listed
StartsPersistent(z, listed) == CreatePersistentSession(StrP, z, listed, "ok")

\* the step is a create_session that succeeded
Created == ret'.op = "create" /\ ret'.err = ""

\* the session is listed in no candidate socket directory
ListedNowhere(z, listed) ==
    LET candidates ==
            zellij_socket_dir_candidates(Unwrap(ensure_zellij_paths(z)), z)
    IN  \A i \in 1..Len(candidates) : listed[candidates[i]] # "present"

\* C29 as stated: a persistent session whose multiplexer session exists in
\* no candidate socket directory is started in the preferred per-user
\* directory, never in the legacy one, and the legacy directory is chosen
\* only to attach to a session that exists there (SpecAttach)
C29_LegacyNeverForNew ==
    [][Created => \A z \in ZellijEnvs, listed \in Listings :
           StartsPersistent(z, listed) =>
               /\ ListedNowhere(z, listed) => AttachedIn = "preferred"
               /\ AttachedIn = "legacy" => listed["legacy"] = "present"]_vars

\* C29 as it holds: a persistent session whose multiplexer session is
\* listed in no candidate socket directory is started in the preferred
\* per-user directory when that directory can be made, and in the legacy
\* directory when it cannot; when the preferred directory can be made the
\* legacy one is chosen only to attach to a session that is listed there
\* and not in the preferred one (SpecAttach)
C29_LegacyOnlyAsFallback ==
    [][Created => \A z \in ZellijEnvs, listed \in Listings :
           StartsPersistent(z, listed) =>
               /\ ListedNowhere(z, listed) =>
                      AttachedIn = (IF z.preferred THEN "preferred"
                                    ELSE "legacy")
               /\ z.preferred /\ AttachedIn = "legacy" =>
                      /\ z.legacy_exists
                      /\ listed["legacy"] = "present"
                      /\ listed["preferred"] # "present"]_vars

\* a persistent session was started in the preferred directory after both
\* the preferred and the legacy directory had been listed
C29_Witness ==
    /\ ret.op = "create"
    /\ ret.err = ""
    /\ ret.invoked =
           <<ZellijCommand("list-sessions", <<>>, "preferred"),
             ZellijCommand("list-sessions", <<>>, "legacy"),
             ZellijCommand("attach",
                           agents_ui_zellij_session_name(StrP), "preferred")>>

\* text is zero or more characters that are not control characters and one
\* terminator behind them
IsEventText(text) ==
    /\ text # <<>>
    /\ text[Len(text)] \in {ChCR, ChLF}
    /\ \A k \in 1..(Len(text) - 1) : ~IsControl(text[k])

\* the Input lines of which cells holds a byte are cleartext events
EventsWellFormed(cells) ==
    \A line \in InputRecords(cells) :
        ~line.data.enc /\ IsEventText(line.data.text)

\* the recordings there are: those of the registry and those of the
\* sessions that a reader thread has taken out of it and not yet dropped
LiveRecordings ==
    {Unwrap(sessions[id].recording) :
        id \in {i \in Registered : IsSome(sessions[i].recording)}}
    \cup {Unwrap(Unwrap(reader[id].held).recording) :
            id \in {i \in Spawned :
                       /\ IsSome(reader[i].held)
                       /\ IsSome(Unwrap(reader[i].held).recording)}}

\* the number of Input lines that begin in cells
InputLinesIn(cells) ==
    Cardinality({k \in 1..Len(cells) :
                    cells[k].line.type = "input" /\ cells[k].k = 1})

\* the step adds at most extra Input lines to what the writer of rec had
\* taken
AddsAtMost(rec, extra) ==
    InputLinesIn(files'[rec.id]) <= InputLinesIn(LogOf(rec)) + extra

\* C30: every Input event of a cleartext recording is zero or more
\* characters that are not control characters and exactly one terminator
\* (CR or LF); the events of one write carry one timestamp; and what is
\* buffered without a terminator when the recording is stopped, detached
\* after a failure or dropped with its reaped session is never written to
\* the log (SpecEvents)
C30_EventShape ==
    /\ [](/\ \A path \in DOMAIN files : EventsWellFormed(files[path])
          /\ \A rec \in LiveRecordings : EventsWellFormed(rec.buf))
    /\ [][ret'.op = "write" /\ Records(ret'.id, Some(StrUser)) =>
             LET rec == Unwrap(sessions[ret'.id].recording)
                 kept == sessions'[ret'.id].recording
                 after == files'[rec.id]
                              \o (IF IsSome(kept) THEN Unwrap(kept).buf
                                  ELSE <<>>)
                 new == {k \in (Len(LogOf(rec)) + 1)..Len(after) :
                            after[k].line.type = "input"}
             IN  /\ \A j \in new, k \in new : after[j].line.t = after[k].line.t
                 /\ ~IsSome(kept) =>
                        AddsAtMost(rec, Terminators(
                                            FromUtf8Lossy(ret'.delivered)))]_vars
    /\ [][ret'.op = "stop" /\ Records(ret'.id, Some(StrUser)) =>
             AddsAtMost(Unwrap(sessions[ret'.id].recording), 0)]_vars
    /\ [][\A id \in Spawned :
             /\ reader[id].pc = "wait"
             /\ reader'[id].pc = "done"
             /\ IsSome(reader[id].held)
             /\ IsSome(Unwrap(reader[id].held).recording)
             => AddsAtMost(Unwrap(Unwrap(reader[id].held).recording), 0)]_vars

\* a write has put two events of one timestamp into the log and left a "c"
\* in the input buffer
C30_Witness ==
    /\ ret.op = "write"
    /\ IdStr(0) \in Registered
    /\ IsSome(sessions[IdStr(0)].recording)
    /\ Unwrap(sessions[IdStr(0)].recording).input_buffer = <<99>>
    /\ {line.data.text : line \in InputRecords(files[StrR])}
           = {<<97, ChCR>>, <<98, ChLF>>}
    /\ \A line \in InputRecords(files[StrR]) : line.t = FlushMillis

\* the lines of a log that stand before its first line that is neither
\* empty nor the serialization of a record
ReadableHead(lines) ==
    LET broken == {i \in 1..Len(lines) :
                      lines[i] # <<>> /\ ParseLine(lines[i]) = None}
    IN  IF broken = {} THEN lines
        ELSE SubSeq(lines, 1,
                    (CHOOSE i \in broken : \A j \in broken : i <= j) - 1)

\* C17: a line that fails to parse ends the read and does not fail it.
\* Whenever load_recording reads a log that exists, it returns what the
\* lines before the first unparseable line hold: the first Meta record
\* among them and their events in order, with no error (SpecBroken)
C17_TolerantRead ==
    [][\A decrypt \in DecryptInputs :
           ( LoadRecording(StrR, decrypt, "ok", 1) /\ StrR \in DOMAIN files ) =>
               LET want == LoadLines(LoadStart(key_cache, keychain),
                                     ReadableHead(FileLines(files[StrR])), 1,
                                     UnwrapOr(decrypt, TRUE), "ok", 1)
               IN  /\ ret'.err = ""
                   /\ ret'.loaded = Some([meta |-> want.meta,
                                          events |-> want.events])]_vars

====
